---- MODULE Spec2Model ----
(***************************************************************************)
(* A model of the python-sandbox service: the execution service, the      *)
(* executor registry and factory, the Docker executor and the Firecracker *)
(* executor.                                                               *)
(*                                                                         *)
(* Five specifications share the module.                                   *)
(*   Spec         the request handlers running on one event loop: the     *)
(*                execution service, ExecutorFactory and ExecutorRegistry *)
(*   SpecFactory  one caller of ExecutorFactory under every fallback      *)
(*                configuration string, with repeated cleanup_all         *)
(*   SpecDocker   calls of DockerExecutor.execute, one after the other     *)
(*   SpecFc       calls of FirecrackerExecutor.execute, one after the      *)
(*                other                                                    *)
(*   SpecValidator  CodeValidator.validate on every source of up to       *)
(*                MaxNodes nodes, and what execute_code makes of it       *)
(*                                                                         *)
(* Strings the code parses are sequences of tokens: a provider name is a  *)
(* sequence of word tokens, "," and " " are the separator and the blank.  *)
(***************************************************************************)
EXTENDS Integers, Sequences, FiniteSets, TLC

\* ------------------------------------------------------------------ bounds

\* Longest EXECUTOR_FALLBACK_PROVIDERS string, in tokens.
MaxCfgLen == 3
\* Coroutines (request handlers) that may be in flight together.
NumProcs == 2
\* Calls of ExecutorFactory.cleanup_all in one run.
MaxCleanups == 2

\* executions of one backend's execute
MaxRuns == 2
\* Nodes of a submitted source's syntax tree.
MaxNodes == 3
\* Output files beyond MAX_FILE_COUNT that a program leaves.
MaxExtraFiles == 2
\* Sleeps of a waiting loop before its timeout has passed.
MaxPolls == 2
\* Fragments of an exception's text.
MaxMsgLen == 4
\* Requests the peer of the guest agent sends on one connection.
MaxRequests == 3
\* Files the guest lists in its output directory.
MaxListed == 3

\* ------------------------------------------------------- program constants

MAX_CODE_LENGTH == 50000
MAX_COMPLEXITY == 20
MAX_OUTPUT_SIZE == 10240
MAX_FILE_SIZE == 10485760
MAX_TOTAL_SIZE == 52428800
MAX_FILE_COUNT == 10

FORBIDDEN_IMPORTS ==
    {"os", "subprocess", "socket", "sys", "importlib", "ctypes",
     "__builtin__", "builtins", "multiprocessing", "threading"}

\* ------------------------------------------------------------ small helpers

Range(s) == {s[i] : i \in 1..Len(s)}

SeqsUpTo(S, n) == UNION {[1..k -> S] : k \in 0..n}

(* An executor object is known by the provider it was constructed for, who *)
(* constructed it, and when: the number of cleanup_all calls before it and *)
(* its rank among the objects constructed for the provider since then.     *)
Obj(provider, origin, epoch, n) ==
    [provider |-> provider, origin |-> origin, epoch |-> epoch, n |-> n]

\* Python's None for an object reference.
None == Obj(<<>>, "none", 0, 0)

\* ------------------------------------------------------- provider names

Docker == <<"docker">>
Firecracker == <<"firecracker">>
Gvisor == <<"gvisor">>

\* The tokens a configuration string is made of.
CfgTokens == {"docker", "firecracker", ",", " "}

\* str.split(','): the pieces between the commas, empty pieces kept.
RECURSIVE SplitComma(_, _, _)
SplitComma(s, cur, acc) ==
    IF s = <<>> THEN Append(acc, cur)
    ELSE IF Head(s) = "," THEN SplitComma(Tail(s), <<>>, Append(acc, cur))
    ELSE SplitComma(Tail(s), Append(cur, Head(s)), acc)

\* str.strip(): leading and trailing blanks removed.
RECURSIVE LStrip(_)
LStrip(s) == IF s # <<>> /\ Head(s) = " " THEN LStrip(Tail(s)) ELSE s

RECURSIVE RStrip(_)
RStrip(s) ==
    IF s # <<>> /\ s[Len(s)] = " " THEN RStrip(SubSeq(s, 1, Len(s) - 1)) ELSE s

Strip(s) == LStrip(RStrip(s))

RECURSIVE StripNonEmpty(_)
StripNonEmpty(parts) ==
    IF parts = <<>> THEN <<>>
    ELSE IF Strip(Head(parts)) # <<>>
         THEN <<Strip(Head(parts))>> \o StripNonEmpty(Tail(parts))
         ELSE StripNonEmpty(Tail(parts))

\* ExecutorFactory._parse_fallback_providers on the str the settings hold.
ParseFallbackProviders(fallback_config) ==
    StripNonEmpty(SplitComma(fallback_config, <<>>, <<>>))

\* The order sorted() puts the provider names in.
NameRank(n) ==
    CASE n = Docker -> 1
      [] n = Firecracker -> 2
      [] n = Gvisor -> 3
      [] OTHER -> 4

RECURSIVE SortedNames(_)
SortedNames(S) ==
    IF S = {} THEN <<>>
    ELSE LET m == CHOOSE x \in S : \A y \in S : NameRank(x) <= NameRank(y)
         IN <<m>> \o SortedNames(S \ {m})

\* --------------------------------------------------------------- validator

(* A submitted source: its length in characters, what ast.parse does with  *)
(* it ("ok", "SyntaxError" or "Exception"), and the nodes of its tree in    *)
(* the order ast.walk yields them.  A dotted module name is the sequence of *)
(* its components, so that name.split('.')[0] is its head.                  *)
Node(type, names, module, flag, id, n) ==
    [type |-> type, names |-> names, module |-> module, flag |-> flag,
     id |-> id, n |-> n]

ImportNode(names) == Node("Import", names, <<>>, FALSE, "", 0)
ImportFromNode(module) == Node("ImportFrom", <<>>, module, FALSE, "", 0)
WhileNode(testIsTrue) == Node("While", <<>>, <<>>, testIsTrue, "", 0)
CallNode(id) == Node("Call", <<>>, <<>>, FALSE, id, 0)
BoolOpNode(n) == Node("BoolOp", <<>>, <<>>, FALSE, "", n)
CompNode(type, n) == Node(type, <<>>, <<>>, FALSE, "", n)
PlainNode(type) == Node(type, <<>>, <<>>, FALSE, "", 0)

Source(length, parses, walk) ==
    [length |-> length, parses |-> parses, walk |-> walk]

Msg(prefix, text, arg) == [prefix |-> prefix, text |-> text, arg |-> arg]

\* err.startswith('Warning:')
StartsWithWarning(m) == m.prefix = "Warning: "

RECURSIVE ForbiddenAliases(_)
ForbiddenAliases(names) ==
    IF names = <<>> THEN <<>>
    ELSE (IF Head(Head(names)) \in FORBIDDEN_IMPORTS
          THEN <<Head(names)>> ELSE <<>>) \o ForbiddenAliases(Tail(names))

\* The mutant of CheckImports that stops at the first forbidden import.
RECURSIVE CheckImportsFirstOnly(_)
CheckImportsFirstOnly(walk) ==
    IF walk = <<>> THEN <<>>
    ELSE LET node == Head(walk)
             here ==
                 IF node.type = "Import" THEN ForbiddenAliases(node.names)
                 ELSE IF node.type = "ImportFrom" /\ node.module # <<>>
                         /\ Head(node.module) \in FORBIDDEN_IMPORTS
                      THEN <<node.module>>
                      ELSE <<>>
         IN IF here # <<>> THEN <<Head(here)>>
            ELSE CheckImportsFirstOnly(Tail(walk))

\* CodeValidator._check_imports
RECURSIVE CheckImports(_)
CheckImports(walk) ==
    IF walk = <<>> THEN <<>>
    ELSE LET node == Head(walk)
             here ==
                 IF node.type = "Import" THEN ForbiddenAliases(node.names)
                 ELSE IF node.type = "ImportFrom" /\ node.module # <<>>
                         /\ Head(node.module) \in FORBIDDEN_IMPORTS
                      THEN <<node.module>>
                      ELSE <<>>
         IN here \o CheckImports(Tail(walk))

\* CodeValidator._check_patterns
RECURSIVE CheckPatterns(_)
CheckPatterns(walk) ==
    IF walk = <<>> THEN <<>>
    ELSE LET node == Head(walk)
             loop ==
                 IF node.type = "While" /\ node.flag
                 THEN <<Msg("", "Potential infinite loop detected (while True)", <<>>)>>
                 ELSE <<>>
             call ==
                 IF node.type = "Call"
                    /\ node.id \in {"eval", "exec", "compile", "__import__"}
                 THEN <<Msg("", "Dangerous builtin usage: ", <<node.id>>)>>
                 ELSE <<>>
         IN loop \o call \o CheckPatterns(Tail(walk))

\* The mutant of DecisionPoints that adds every operand of a boolean chain.
RECURSIVE DecisionPointsPerOperand(_)
DecisionPointsPerOperand(walk) ==
    IF walk = <<>> THEN 0
    ELSE LET node == Head(walk)
             here ==
                 IF node.type \in {"If", "While", "For", "ExceptHandler"} THEN 1
                 ELSE IF node.type = "BoolOp" THEN node.n
                 ELSE IF node.type \in {"ListComp", "DictComp", "SetComp"}
                      THEN node.n
                      ELSE 0
         IN here + DecisionPointsPerOperand(Tail(walk))

\* CodeValidator._calculate_complexity
RECURSIVE DecisionPoints(_)
DecisionPoints(walk) ==
    IF walk = <<>> THEN 0
    ELSE LET node == Head(walk)
             here ==
                 IF node.type \in {"If", "While", "For", "ExceptHandler"} THEN 1
                 ELSE IF node.type = "BoolOp" THEN node.n - 1
                 ELSE IF node.type \in {"ListComp", "DictComp", "SetComp"}
                      THEN node.n
                      ELSE 0
         IN here + DecisionPoints(Tail(walk))

CalculateComplexity(walk) == 1 + DecisionPoints(walk)

ForbiddenMsgs(found) ==
    [i \in 1..Len(found) |-> Msg("", "Forbidden import: ", found[i])]

WarningMsgs(warnings) ==
    [i \in 1..Len(warnings) |->
        Msg("Warning: ", warnings[i].text, warnings[i].arg)]

\* The mutant of Validate that reports forbidden imports and goes on.
ValidateNoImportGate(code) ==
    IF code.length > MAX_CODE_LENGTH
    THEN [ok |-> FALSE, errors |-> <<Msg("", "Code exceeds maximum length", <<>>)>>]
    ELSE IF code.parses # "ok"
    THEN [ok |-> FALSE, errors |-> <<Msg("", "Syntax error", <<>>)>>]
    ELSE LET errors == ForbiddenMsgs(CheckImports(code.walk))
                        \o WarningMsgs(CheckPatterns(code.walk))
             complexity == CalculateComplexity(code.walk)
         IN IF complexity > MAX_COMPLEXITY
            THEN [ok |-> FALSE,
                  errors |-> Append(errors,
                      Msg("", "Code complexity exceeds maximum", <<complexity>>))]
            ELSE [ok |-> TRUE, errors |-> errors]

\* The mutant of Validate whose length check rejects the maximum length too.
ValidateLengthInclusive(code) ==
    IF code.length >= MAX_CODE_LENGTH
    THEN [ok |-> FALSE, errors |-> <<Msg("", "Code exceeds maximum length", <<>>)>>]
    ELSE IF code.parses = "SyntaxError"
    THEN [ok |-> FALSE, errors |-> <<Msg("", "Syntax error", <<>>)>>]
    ELSE IF code.parses # "ok"
    THEN [ok |-> FALSE, errors |-> <<Msg("", "Failed to parse code", <<>>)>>]
    ELSE LET forbidden_found == CheckImports(code.walk)
         IN IF forbidden_found # <<>>
            THEN [ok |-> FALSE, errors |-> ForbiddenMsgs(forbidden_found)]
            ELSE LET errors == WarningMsgs(CheckPatterns(code.walk))
                     complexity == CalculateComplexity(code.walk)
                 IN IF complexity > MAX_COMPLEXITY
                    THEN [ok |-> FALSE,
                          errors |-> Append(errors,
                              Msg("", "Code complexity exceeds maximum",
                                  <<complexity>>))]
                    ELSE [ok |-> TRUE, errors |-> errors]

\* CodeValidator.validate: (is_valid, errors)
Validate(code) ==
    IF code.length > MAX_CODE_LENGTH
    THEN [ok |-> FALSE, errors |-> <<Msg("", "Code exceeds maximum length", <<>>)>>]
    ELSE IF code.parses = "SyntaxError"
    THEN [ok |-> FALSE, errors |-> <<Msg("", "Syntax error", <<>>)>>]
    ELSE IF code.parses # "ok"
    THEN [ok |-> FALSE, errors |-> <<Msg("", "Failed to parse code", <<>>)>>]
    ELSE LET forbidden_found == CheckImports(code.walk)
         IN IF forbidden_found # <<>>
            THEN [ok |-> FALSE, errors |-> ForbiddenMsgs(forbidden_found)]
            ELSE LET errors == WarningMsgs(CheckPatterns(code.walk))
                     complexity == CalculateComplexity(code.walk)
                 IN IF complexity > MAX_COMPLEXITY
                    THEN [ok |-> FALSE,
                          errors |-> Append(errors,
                              Msg("", "Code complexity exceeds maximum",
                                  <<complexity>>))]
                    ELSE [ok |-> TRUE, errors |-> errors]

\* The sources the request handlers are given.
SampleCodes ==
    { Source(20, "ok", <<PlainNode("Module"), PlainNode("Expr"), CallNode("print")>>),
      Source(MAX_CODE_LENGTH + 1, "ok", <<PlainNode("Module")>>),
      Source(12, "SyntaxError", <<>>),
      Source(25, "ok", <<PlainNode("Module"), ImportNode(<<<<"os">>>>),
                         PlainNode("Expr"), CallNode("")>>),
      Source(30, "ok", <<PlainNode("Module"), ImportFromNode(<<"subprocess">>)>>),
      Source(40, "ok", <<PlainNode("Module"), WhileNode(TRUE), PlainNode("Pass")>>),
      Source(90, "ok", <<PlainNode("Module"), PlainNode("If"),
                         BoolOpNode(MAX_COMPLEXITY + 1)>>) }

\* ------------------------------------------------------------------- state

VARIABLES
    \* ExecutorRegistry._registry: provider name -> executor class
    registry,
    \* settings.EXECUTOR_PROVIDER and settings.EXECUTOR_FALLBACK_PROVIDERS
    primary, fallbackCfg,
    \* ExecutorFactory._instances, in insertion order: <<[provider, id], ...>>
    instances,
    \* made[n]: how many executors the factory constructed for provider n
    \* since the cache was last cleared
    made,
    \* app.executors.docker._executor_instance and ExecutionService._executor
    dockerSingleton, svcExecutor,
    \* the coroutines: which may run, where each is, and its locals
    active, pc, op, code, held, idx, attempts, built, called, result,
    \* calls of cleanup_all so far, and what the last one did
    cleanups, lastCleanup,
    \* DockerExecutor.execute: where it is, its locals `container`, `result`,
    \* `stdout`/`stderr` and the exception in flight, what it returned, the
    \* program and storage it was given, the daemon's containers by id, and
    \* the remove(force=True) calls made
    dkPc, container, waitResult, dkLogs, dkExc, dkReturn, dkInput,
    containers, removals,
    \* _extract_and_save_files: the position of its loop over the archive's
    \* members, its locals, and the members handed to save_file so far
    member_idx, file_count, total_size, file_urls, saved,
    \* the calls of container.get_archive in this execute
    archive_reads,
    \* FirecrackerExecutor.execute: where it is, its locals `vm_id`,
    \* `firecracker_process`, `result` and the exception in flight, what it
    \* returned, the guest it was given, the processes started by vm id, the
    \* files in the socket directory, and the kill() calls made
    fcPc, vm_id, firecracker_process, fcResult, fcExc, fcReturn, fcInput,
    processes, socketDir, kills,
    \* the session's steps in the order execute called them, the calls of
    \* the control API, what was put on the vsock, the calls of the finally
    \* block, and the sleeps of the waiting loop execute is in
    fcSteps, apiCalls, rpcLog, teardown, polls,
    \* what happened to the exchange of _execute_code_in_vm, and the run of
    \* the guest's subprocess behind the response the host decoded
    rpcEvent, guestRun,
    \* GuestAgent.run: whether it waits in accept, serves a connection or is
    \* about to close it, and the requests read on the connection with what
    \* was sent back for each
    agPc, agLog,
    \* _extract_files on its connection to the guest agent: where it is and
    \* how it ended, the files the guest listed, the position of the loop
    \* over them, the bytes the guest sent that the host has not read, what
    \* the host read as lengths and contents, the contents handed to
    \* save_file, and file_urls
    xPc, xEnd, xListing, xIdx, xStream, xReads, xHanded, xUrls,
    \* execute of the microVM backend in several requests at a time: each
    \* request's position and its locals vm_id and firecracker_process, the
    \* number of uuid4() values drawn, and what each finally block killed
    \* and removed
    sessions, uuids, teardowns,
    \* one submission through CodeValidator.validate and the decision
    \* execute_code takes on its result: where it is, the source, the
    \* (is_valid, errors) pair and what execute_code does next
    vPc, vCode, vResult, vOutcome,
    \* app.storage.manager._storage_manager after startup
    storage_manager,
    \* GET /health: where the handler is and what it returned
    hPc, hResponse,
    \* POST /execute: where the request is, the request body, the arguments
    \* validate and execute were called with, and the status of the response
    aPc, aRequest, validateArg, executeArg, aResponse

svcVars ==
    <<registry, primary, fallbackCfg, instances, made, dockerSingleton,
      svcExecutor, active, pc, op, code, held, idx, attempts, built, called,
      result, cleanups, lastCleanup>>

exVars == <<member_idx, file_count, total_size, file_urls, saved, archive_reads>>

dkVars ==
    <<dkPc, container, waitResult, dkLogs, dkExc, dkReturn, dkInput,
      containers, removals, exVars>>

fcVars ==
    <<fcPc, vm_id, firecracker_process, fcResult, fcExc, fcReturn, fcInput,
      processes, socketDir, kills, fcSteps, apiCalls, rpcLog, teardown, polls,
      rpcEvent, guestRun>>

valVars == <<vPc, vCode, vResult, vOutcome>>

xVars == <<xPc, xEnd, xListing, xIdx, xStream, xReads, xHanded, xUrls>>

ccVars == <<sessions, uuids, teardowns>>

guestVars == <<agPc, agLog, xVars, ccVars>>

apiVars ==
    <<storage_manager, hPc, hResponse, aPc, aRequest, validateArg, executeArg,
      aResponse>>

Procs == 1..NumProcs

Providers == {Docker, Firecracker, Gvisor}

ExecutorClass(name) ==
    IF name = Docker THEN "DockerExecutor" ELSE "FirecrackerExecutor"

NoCode == Source(0, "ok", <<>>)

NoResult ==
    [kind |-> "none", inst |-> None, provider |-> <<>>, tried |-> <<>>,
     registered |-> <<>>, errors |-> <<>>]

InstanceResult(inst) == [NoResult EXCEPT !.kind = "instance", !.inst = inst]

\* ExecutionError raised by ExecutorRegistry.get or create_executor
CreateError(provider) ==
    [NoResult EXCEPT !.kind = "ExecutionError", !.provider = provider]

\* ------------------------------------------------- the instance cache (dict)

HasKey(d, k) == \E i \in 1..Len(d) : d[i].provider = k

Lookup(d, k) == d[CHOOSE i \in 1..Len(d) : d[i].provider = k].id

\* d[k] = v: a new key goes last, an existing key keeps its place.
DictSet(d, k, v) ==
    IF HasKey(d, k)
    THEN [i \in 1..Len(d) |-> IF d[i].provider = k THEN [provider |-> k, id |-> v]
                                                     ELSE d[i]]
    ELSE Append(d, [provider |-> k, id |-> v])

DictDel(d, k) == SelectSeq(d, LAMBDA e : e.provider # k)

Ids(d) == [i \in 1..Len(d) |-> d[i].id]

\* ------------------------------------------- ExecutorFactory.create_executor

\* The object executor_class() returns when the factory calls it.
NewExecutor(provider_type) ==
    Obj(provider_type, "factory", cleanups, made[provider_type] + 1)

\* The mutant of CreateExecutor that does not look in the cache.
CreateExecutorNoCache(provider, ctorOk) ==
    LET provider_type == IF provider = <<>> THEN primary ELSE provider
    IN  IF provider_type \in DOMAIN registry /\ ctorOk
        THEN [raised |-> FALSE, executor |-> NewExecutor(provider_type), built |-> 1,
              instances |-> DictSet(instances, provider_type,
                                    NewExecutor(provider_type)),
              error |-> NoResult]
        ELSE [raised |-> TRUE, executor |-> None, built |-> 0,
              instances |-> instances, error |-> CreateError(provider_type)]

\* The mutant of CreateExecutor that caches the instance before a
\* construction that raises.
CreateExecutorCachesFailure(provider, ctorOk) ==
    LET provider_type == IF provider = <<>> THEN primary ELSE provider
        cached == Append(instances,
                      [provider |-> provider_type, id |-> NewExecutor(provider_type)])
    IN  IF HasKey(instances, provider_type)
        THEN [raised |-> FALSE, executor |-> Lookup(instances, provider_type),
              built |-> 0, instances |-> instances, error |-> NoResult]
        ELSE IF provider_type \notin DOMAIN registry
        THEN [raised |-> TRUE, executor |-> None, built |-> 0,
              instances |-> instances, error |-> CreateError(provider_type)]
        ELSE IF ctorOk
        THEN [raised |-> FALSE, executor |-> NewExecutor(provider_type), built |-> 1,
              instances |-> cached, error |-> NoResult]
        ELSE [raised |-> TRUE, executor |-> None, built |-> 0,
              instances |-> cached, error |-> CreateError(provider_type)]

(* create_executor(provider): the cached instance, or a new one that is    *)
(* cached; ctorOk says whether executor_class() returns or raises.  The    *)
(* call is synchronous: no other coroutine runs inside it.                 *)
CreateExecutor(provider, ctorOk) ==
    LET provider_type == IF provider = <<>> THEN primary ELSE provider
        failed == [raised |-> TRUE, executor |-> None, built |-> 0,
                   instances |-> instances, error |-> CreateError(provider_type)]
    IN  IF HasKey(instances, provider_type)
        THEN [raised |-> FALSE, executor |-> Lookup(instances, provider_type),
              built |-> 0, instances |-> instances, error |-> NoResult]
        ELSE IF provider_type \notin DOMAIN registry THEN failed
        ELSE IF ctorOk
        THEN [raised |-> FALSE, executor |-> NewExecutor(provider_type), built |-> 1,
              instances |-> Append(instances,
                  [provider |-> provider_type, id |-> NewExecutor(provider_type)]),
              error |-> NoResult]
        ELSE failed

\* What a call of create_executor(provider) leaves in the factory's state.
Created(provider, r) ==
    /\ instances' = r.instances
    /\ made' = IF r.built = 1
               THEN [made EXCEPT ![IF provider = <<>> THEN primary ELSE provider] = @ + 1]
               ELSE made

\* -------------------------------------- ExecutorFactory.get_healthy_executor

Attempt(provider, inst, constructed, healthy) ==
    [provider |-> provider, inst |-> inst, constructed |-> constructed,
     healthy |-> healthy]

FallbackProviders == ParseFallbackProviders(fallbackCfg)

\* What executor.health_check() can do when awaited.
HealthOutcomes == {"true", "false", "raise"}

ProcIdle(p) == p \in active /\ pc[p] = "idle"

NoCleanup ==
    [before |-> <<>>, invoked |-> <<>>, after |-> <<>>, raised |-> {},
     propagated |-> FALSE, called |-> FALSE]

\* What no request handler touches.
HandlerFrame ==
    /\ UNCHANGED <<registry, primary, fallbackCfg, active, cleanups>>
    /\ UNCHANGED <<dkVars, fcVars, valVars, apiVars, guestVars>>
    /\ lastCleanup' = NoCleanup

ServiceUntouched == UNCHANGED <<dockerSingleton, svcExecutor, code, called>>

\* Up to the first await: create_executor(primary_provider).
GHStart(p) ==
    /\ ProcIdle(p)
    /\ \E ctorOk \in BOOLEAN :
        LET r == CreateExecutor(primary, ctorOk)
        IN  /\ Created(primary, r)
            /\ op' = [op EXCEPT ![p] = "get_healthy"]
            /\ built' = [built EXCEPT ![p] = r.built]
            /\ IF r.raised
               THEN /\ attempts' = [attempts EXCEPT
                        ![p] = <<Attempt(primary, None, FALSE, FALSE)>>]
                    /\ pc' = [pc EXCEPT ![p] = "gh_loop"]
                    /\ idx' = [idx EXCEPT ![p] = 1]
                    /\ UNCHANGED held
               ELSE /\ held' = [held EXCEPT ![p] = r.executor]
                    /\ pc' = [pc EXCEPT ![p] = "gh_primary_hc"]
                    /\ UNCHANGED <<attempts, idx>>
    /\ UNCHANGED result
    /\ ServiceUntouched
    /\ HandlerFrame

\* The mutant of AfterUnhealthy that drops the unhealthy provider's instance.
AfterUnhealthyEvicts(provider) == DictDel(instances, provider)

\* The cache after provider's health_check() came back negative or raised.
AfterUnhealthy(provider) == instances

\* The primary's health_check() answers.
GHHealthPrimary(p) ==
    /\ p \in active /\ pc[p] = "gh_primary_hc"
    /\ \E h \in HealthOutcomes :
        /\ attempts' = [attempts EXCEPT
               ![p] = Append(@, Attempt(primary, held[p], TRUE, h = "true"))]
        /\ IF h = "true"
           THEN /\ result' = [result EXCEPT ![p] = InstanceResult(held[p])]
                /\ pc' = [pc EXCEPT ![p] = "done"]
                /\ UNCHANGED <<idx, instances>>
           ELSE /\ pc' = [pc EXCEPT ![p] = "gh_loop"]
                /\ idx' = [idx EXCEPT ![p] = 1]
                /\ instances' = AfterUnhealthy(primary)
                /\ UNCHANGED result
    /\ UNCHANGED <<made, op, held, built>>
    /\ ServiceUntouched
    /\ HandlerFrame

\* The ExecutionError get_healthy_executor ends with.
NoHealthyError(tried) ==
    [NoResult EXCEPT !.kind = "ExecutionError", !.tried = tried,
                     !.registered = SortedNames(DOMAIN registry)]

\* The mutant of TriedProviders that names the fallbacks only.
TriedProvidersOmitsPrimary == FallbackProviders

\* all_providers = [primary_provider] + fallback_providers
TriedProviders == <<primary>> \o FallbackProviders

\* One turn of the loop over the fallback providers, or the raise after it.
GHLoop(p) ==
    /\ p \in active /\ pc[p] = "gh_loop"
    /\ LET i == idx[p]
           provider == FallbackProviders[i]
       IN  IF i > Len(FallbackProviders)
           THEN /\ result' = [result EXCEPT ![p] = NoHealthyError(TriedProviders)]
                /\ pc' = [pc EXCEPT ![p] = "done"]
                /\ UNCHANGED <<instances, made, held, idx, attempts, built>>
           ELSE IF provider = primary \/ provider \notin DOMAIN registry
           THEN /\ idx' = [idx EXCEPT ![p] = i + 1]
                /\ UNCHANGED <<instances, made, held, attempts, built, pc,
                               result>>
           ELSE \E ctorOk \in BOOLEAN :
                LET r == CreateExecutor(provider, ctorOk)
                IN  /\ Created(provider, r)
                    /\ built' = [built EXCEPT ![p] = @ + r.built]
                    /\ UNCHANGED result
                    /\ IF r.raised
                       THEN /\ attempts' = [attempts EXCEPT
                                ![p] = Append(@, Attempt(provider, None, FALSE, FALSE))]
                            /\ idx' = [idx EXCEPT ![p] = i + 1]
                            /\ UNCHANGED <<held, pc>>
                       ELSE /\ held' = [held EXCEPT ![p] = r.executor]
                            /\ pc' = [pc EXCEPT ![p] = "gh_fallback_hc"]
                            /\ UNCHANGED <<attempts, idx>>
    /\ UNCHANGED op
    /\ ServiceUntouched
    /\ HandlerFrame

\* A fallback's health_check() answers.
GHHealthFallback(p) ==
    /\ p \in active /\ pc[p] = "gh_fallback_hc"
    /\ \E h \in HealthOutcomes :
        /\ attempts' = [attempts EXCEPT
               ![p] = Append(@, Attempt(FallbackProviders[idx[p]], held[p],
                                        TRUE, h = "true"))]
        /\ IF h = "true"
           THEN /\ result' = [result EXCEPT ![p] = InstanceResult(held[p])]
                /\ pc' = [pc EXCEPT ![p] = "done"]
                /\ UNCHANGED <<idx, instances>>
           ELSE /\ pc' = [pc EXCEPT ![p] = "gh_loop"]
                /\ idx' = [idx EXCEPT ![p] = idx[p] + 1]
                /\ instances' = AfterUnhealthy(FallbackProviders[idx[p]])
                /\ UNCHANGED result
    /\ UNCHANGED <<made, op, held, built>>
    /\ ServiceUntouched
    /\ HandlerFrame

\* A step of get_healthy_executor.
GetHealthyStep(p) ==
    GHStart(p) \/ GHHealthPrimary(p) \/ GHLoop(p) \/ GHHealthFallback(p)

\* factory.get_executor(provider): create_executor, start to end.
CreateCall(p) ==
    /\ ProcIdle(p)
    /\ \E provider \in Providers \cup {<<>>}, ctorOk \in BOOLEAN :
        LET r == CreateExecutor(provider, ctorOk)
        IN  /\ Created(provider, r)
            /\ built' = [built EXCEPT ![p] = r.built]
            /\ held' = [held EXCEPT ![p] = r.executor]
            /\ result' = [result EXCEPT
                   ![p] = IF r.raised THEN r.error
                          ELSE [InstanceResult(r.executor) EXCEPT
                                   !.provider = IF provider = <<>> THEN primary
                                                ELSE provider]]
    /\ op' = [op EXCEPT ![p] = "create"]
    /\ pc' = [pc EXCEPT ![p] = "done"]
    /\ UNCHANGED <<idx, attempts>>
    /\ ServiceUntouched
    /\ HandlerFrame

\* ------------------------------------------ ExecutionService.execute_code

ErrorMsgs(errors) == SelectSeq(errors, LAMBDA m : ~StartsWithWarning(m))

ValidationFailure(errors) ==
    [NoResult EXCEPT !.kind = "ValidationError", !.errors = ErrorMsgs(errors)]

(* execute_code up to its first await: validate, then the executor         *)
(* property (docker.get_executor on first use), then executor.execute.     *)
(* ctorOk says whether DockerExecutor() returns or raises DockerError.     *)
ExecStart(p) ==
    /\ ProcIdle(p)
    /\ \E c \in SampleCodes, ctorOk \in BOOLEAN :
        LET v == Validate(c)
            executor ==
                IF svcExecutor # None THEN svcExecutor
                ELSE IF dockerSingleton # None THEN dockerSingleton
                ELSE IF ctorOk THEN Obj(Docker, "docker.get_executor", 0, 1)
                ELSE None
        IN  /\ code' = [code EXCEPT ![p] = c]
            /\ op' = [op EXCEPT ![p] = "execute"]
            /\ IF ~v.ok
               THEN /\ result' = [result EXCEPT ![p] = ValidationFailure(v.errors)]
                    /\ pc' = [pc EXCEPT ![p] = "done"]
                    /\ UNCHANGED <<dockerSingleton, svcExecutor, held, built,
                                   called>>
               ELSE IF executor = None
               THEN /\ result' = [result EXCEPT ![p] = CreateError(Docker)]
                    /\ pc' = [pc EXCEPT ![p] = "done"]
                    /\ UNCHANGED <<dockerSingleton, svcExecutor, held, built,
                                   called>>
               ELSE /\ built' = [built EXCEPT
                           ![p] = IF svcExecutor = None /\ dockerSingleton = None
                                  THEN 1 ELSE 0]
                    /\ dockerSingleton' = IF svcExecutor = None THEN executor
                                          ELSE dockerSingleton
                    /\ svcExecutor' = executor
                    /\ held' = [held EXCEPT ![p] = executor]
                    /\ called' = [called EXCEPT ![p] = TRUE]
                    /\ pc' = [pc EXCEPT ![p] = "exec_await"]
                    /\ UNCHANGED result
    /\ UNCHANGED <<instances, made, idx, attempts>>
    /\ HandlerFrame

\* executor.execute returns its result dict.
ExecReturn(p) ==
    /\ p \in active /\ pc[p] = "exec_await"
    /\ result' = [result EXCEPT ![p] = [NoResult EXCEPT !.kind = "result",
                                                        !.inst = held[p]]]
    /\ pc' = [pc EXCEPT ![p] = "done"]
    /\ UNCHANGED <<instances, made, op, held, idx, attempts, built>>
    /\ ServiceUntouched
    /\ HandlerFrame

\* The coroutine ends; the next request starts from a clean frame.
Return(p) ==
    /\ p \in active /\ pc[p] = "done"
    /\ pc' = [pc EXCEPT ![p] = "idle"]
    /\ op' = [op EXCEPT ![p] = "none"]
    /\ code' = [code EXCEPT ![p] = NoCode]
    /\ held' = [held EXCEPT ![p] = None]
    /\ idx' = [idx EXCEPT ![p] = 0]
    /\ attempts' = [attempts EXCEPT ![p] = <<>>]
    /\ built' = [built EXCEPT ![p] = 0]
    /\ called' = [called EXCEPT ![p] = FALSE]
    /\ result' = [result EXCEPT ![p] = NoResult]
    /\ UNCHANGED <<instances, made, dockerSingleton, svcExecutor>>
    /\ HandlerFrame

\* ------------------------------------ one submission through the validator

NoValidation == [ok |-> FALSE, errors |-> <<>>]

\* execute_code goes on to the executor.
Proceed == [NoResult EXCEPT !.kind = "execute"]

\* The nodes the sources are made of.
NodeAlphabet ==
    { PlainNode("Expr"),
      ImportNode(<<<<"os">>>>),
      ImportNode(<<<<"math">>, <<"os", "path">>>>),
      ImportNode(<<<<"json">>>>),
      ImportFromNode(<<"subprocess">>),
      ImportFromNode(<<"collections", "abc">>),
      ImportFromNode(<<>>),
      WhileNode(TRUE),
      WhileNode(FALSE),
      CallNode("eval"),
      CallNode("print"),
      PlainNode("If"),
      PlainNode("For"),
      PlainNode("ExceptHandler"),
      BoolOpNode(2),
      BoolOpNode(MAX_COMPLEXITY),
      CompNode("ListComp", 2) }

\* Parseable sources of up to MaxNodes nodes at lengths around the limit,
\* and sources ast.parse rejects.
ValidatorInputs ==
    { Source(l, "ok", w) :
          l \in {1, MAX_CODE_LENGTH, MAX_CODE_LENGTH + 1},
          w \in SeqsUpTo(NodeAlphabet, MaxNodes) }
    \cup { Source(l, e, <<>>) :
              l \in {1, MAX_CODE_LENGTH + 1}, e \in {"SyntaxError", "Exception"} }

ValFrame == UNCHANGED <<svcVars, dkVars, fcVars, apiVars, guestVars>>

\* is_valid, errors = self.validator.validate(code)
ValidateCall ==
    /\ vPc = "idle"
    /\ vResult' = Validate(vCode)
    /\ vPc' = "validated"
    /\ UNCHANGED <<vCode, vOutcome>>
    /\ ValFrame

\* execute_code, lines 61-72: raise ValidationError or go on.
ServiceDecide ==
    /\ vPc = "validated"
    /\ vOutcome' = IF ~vResult.ok THEN ValidationFailure(vResult.errors)
                   ELSE Proceed
    /\ vPc' = "done"
    /\ UNCHANGED <<vCode, vResult>>
    /\ ValFrame

\* ---------------------------------------------- ExecutorFactory.cleanup_all

RECURSIVE UpToFirstRaise(_, _)
UpToFirstRaise(ids, raises) ==
    IF ids = <<>> THEN <<>>
    ELSE IF Head(ids) \in raises THEN <<Head(ids)>>
    ELSE <<Head(ids)>> \o UpToFirstRaise(Tail(ids), raises)

\* The mutant of CleanupAll without the try/except around executor.cleanup().
CleanupAllUnguarded(raises) ==
    LET invoked == UpToFirstRaise(Ids(instances), raises)
        raised == \E i \in 1..Len(invoked) : invoked[i] \in raises
    IN  [invoked |-> invoked,
         instances |-> IF raised THEN instances ELSE <<>>,
         propagated |-> raised]

(* cleanup_all, where the cleanup() of the instances in `raises` raises:   *)
(* the instances cleanup() was invoked on, in order, the cache afterwards   *)
(* and whether an exception left the call.                                  *)
CleanupAll(raises) ==
    IF instances = <<>>
    THEN [invoked |-> <<>>, instances |-> instances, propagated |-> FALSE]
    ELSE [invoked |-> Ids(instances), instances |-> <<>>, propagated |-> FALSE]

\* What a call of cleanup_all does to the factory; lastCleanup holds what
\* the call did until the next step of any handler.
CleanupAllEffect ==
    /\ \E raises \in SUBSET Range(Ids(instances)) :
        LET r == CleanupAll(raises)
        IN  /\ instances' = r.instances
            /\ made' = IF r.instances = <<>> THEN [n \in DOMAIN made |-> 0] ELSE made
            /\ lastCleanup' = [before |-> instances, invoked |-> r.invoked,
                               after |-> r.instances, raised |-> raises,
                               propagated |-> r.propagated, called |-> TRUE]
    /\ cleanups' = cleanups + 1
    /\ UNCHANGED <<registry, primary, fallbackCfg, dockerSingleton, svcExecutor,
                   pc, op, code, held, idx, attempts, built, called, result>>
    /\ UNCHANGED <<dkVars, fcVars, valVars, apiVars, guestVars>>

\* A caller of the factory calls cleanup_all.
CleanupAllCall ==
    /\ cleanups < MaxCleanups
    /\ CleanupAllEffect
    /\ UNCHANGED active

\* main.shutdown: the application stops serving and calls cleanup_all. The
\* handler is a shutdown event of the application: the server runs it once
\* the requests in flight have been answered.
Shutdown ==
    /\ active # {}
    /\ \A p \in Procs : pc[p] = "idle"
    /\ active' = {}
    /\ CleanupAllEffect

\* ------------------------------------------- DockerExecutor (docker.py)

\* A string, by its length and whether it ends with the truncation notice.
Text(len, notice) == [len |-> len, notice |-> notice]

EmptyText == Text(0, FALSE)

\* len("\n\n[Output truncated - exceeded 10240 bytes]")
TRUNCATION_NOTICE_LEN == 43

\* The mutant of TruncateOutput that also cuts an output of exactly the limit.
TruncateOutputInclusive(output) ==
    IF output.len >= MAX_OUTPUT_SIZE
    THEN Text(MAX_OUTPUT_SIZE + TRUNCATION_NOTICE_LEN, TRUE)
    ELSE output

\* _truncate_output: output[:max_size] followed by the notice, lines 265-274.
TruncateOutput(output) ==
    IF output.len > MAX_OUTPUT_SIZE
    THEN Text(MAX_OUTPUT_SIZE + TRUNCATION_NOTICE_LEN, TRUE)
    ELSE output

\* The fragments exception texts are made of; a text is a sequence of them.
Fragments == {"time", "Time", "d", " ", "out", "OUT", "x"}

\* str.lower() of a fragment, and of a text.
LowerFragment(f) ==
    CASE f = "Time" -> "time"
      [] f = "OUT" -> "out"
      [] OTHER -> f

Lower(text) == [i \in DOMAIN text |-> LowerFragment(text[i])]

\* `pat in text` of two strings.
HasInfix(text, pat) ==
    \E i \in 0..(Len(text) - Len(pat)) :
        \A j \in 1..Len(pat) : text[i + j] = pat[j]

\* The mutant of MentionsTimeout that compares without lower().
MentionsTimeoutCaseSensitive(text) ==
    \/ HasInfix(text, <<"time", "out">>)
    \/ HasInfix(text, <<"time", "d", " ", "out">>)

\* 'timeout' in str(e).lower() or 'timed out' in str(e).lower(): line 141.
MentionsTimeout(text) ==
    \/ HasInfix(Lower(text), <<"time", "out">>)
    \/ HasInfix(Lower(text), <<"time", "d", " ", "out">>)

\* An exception: its class, whether its text is that of a timeout ("timed
\* out") or another ("x"), and ContainerError's exit_status.
Exc(cls, timeoutText, exit_status) ==
    [cls |-> cls, timeoutText |-> timeoutText, exit_status |-> exit_status,
     msg |-> Text(1, FALSE), body |-> EmptyText,
     text |-> IF timeoutText THEN <<"time", "d", " ", "out">> ELSE <<"x">>]

NoExc == [Exc("none", FALSE, 0) EXCEPT !.msg = EmptyText]

\* A member of the tar archive of /tmp/output: name is the path, a sequence
\* of components, each a sequence of tokens; save is what becomes of the
\* file once it passed the limits: "url" (saved, presigned url made),
\* "none" (save_file returns nothing), "raise" (save_file raises),
\* "url_raise" (generate_presigned_url raises), "read_error" (extractfile or
\* read raises).
Member(isfile, name, size, save) ==
    [isfile |-> isfile, name |-> name, size |-> size, save |-> save]

\* Path(member.name).name
BaseName(name) == name[Len(name)]

StartsWithDot(filename) == Len(filename) > 0 /\ filename[1] = "."

\* The mutant of MemberVerdict that lets one file more through.
MemberVerdictCountOffByOne(member, count, total) ==
    IF ~member.isfile THEN "continue"
    ELSE IF StartsWithDot(BaseName(member.name)) THEN "continue"
    ELSE IF count > MAX_FILE_COUNT THEN "break"
    ELSE IF member.size > MAX_FILE_SIZE THEN "continue"
    ELSE IF total + member.size > MAX_TOTAL_SIZE THEN "break"
    ELSE IF member.size = 0 THEN "continue"
    ELSE "save"

\* The mutant of MemberVerdict that stops at a file over the size limit.
MemberVerdictOversizeBreaks(member, count, total) ==
    IF ~member.isfile THEN "continue"
    ELSE IF StartsWithDot(BaseName(member.name)) THEN "continue"
    ELSE IF count >= MAX_FILE_COUNT THEN "break"
    ELSE IF member.size > MAX_FILE_SIZE THEN "break"
    ELSE IF total + member.size > MAX_TOTAL_SIZE THEN "break"
    ELSE IF member.size = 0 THEN "continue"
    ELSE "save"

\* The mutant of MemberVerdict that skips a file over the total instead of
\* stopping.
MemberVerdictTotalSkips(member, count, total) ==
    IF ~member.isfile THEN "continue"
    ELSE IF StartsWithDot(BaseName(member.name)) THEN "continue"
    ELSE IF count >= MAX_FILE_COUNT THEN "break"
    ELSE IF member.size > MAX_FILE_SIZE THEN "continue"
    ELSE IF total + member.size > MAX_TOTAL_SIZE THEN "continue"
    ELSE IF member.size = 0 THEN "continue"
    ELSE "save"

\* What one iteration of the loop over tar.getmembers() does with a member,
\* given file_count and total_size: lines 197-229.
MemberVerdict(member, count, total) ==
    IF ~member.isfile THEN "continue"
    ELSE IF StartsWithDot(BaseName(member.name)) THEN "continue"
    ELSE IF count >= MAX_FILE_COUNT THEN "break"
    ELSE IF member.size > MAX_FILE_SIZE THEN "continue"
    ELSE IF total + member.size > MAX_TOTAL_SIZE THEN "break"
    ELSE IF member.size = 0 THEN "continue"
    ELSE "save"

NoContainer == 0

NoWait == [done |-> FALSE, StatusCode |-> 0]

NoLogs == [stdout |-> EmptyText, stderr |-> EmptyText]

NoReturn ==
    [returned |-> FALSE, success |-> FALSE, stdout |-> EmptyText,
     stderr |-> EmptyText, exit_code |-> 0, error |-> "None", files |-> <<>>]

\* The dict of the normal return.
SuccessResult(stdout, stderr, status, files) ==
    [returned |-> TRUE, success |-> TRUE, stdout |-> stdout, stderr |-> stderr,
     exit_code |-> status, error |-> "None", files |-> files]

\* The dicts of `except ContainerError` and `except Exception`.
ExceptResult(e) ==
    IF e.cls = "ContainerError"
    THEN [returned |-> TRUE, success |-> FALSE, stdout |-> EmptyText,
          stderr |-> e.msg, exit_code |-> e.exit_status,
          error |-> "Container error", files |-> <<>>]
    ELSE [returned |-> TRUE, success |-> FALSE, stdout |-> EmptyText,
          stderr |-> e.msg, exit_code |-> -1,
          error |-> IF MentionsTimeout(e.text) THEN "Execution timeout"
                                               ELSE "Execution failed",
          files |-> <<>>]

\* `if container:` of the finally block, never true
NeedsRemovalNever(c) == FALSE

\* `if container:` of the finally block
NeedsRemoval(c) == c # NoContainer

\* What the user's code does in the container.
Program(hangs, exit, stdout, stderr) ==
    [hangs |-> hangs, exit |-> exit, stdout |-> Text(stdout, FALSE),
     stderr |-> Text(stderr, FALSE)]

SamplePrograms ==
    { Program(FALSE, 0, 12, 0),                     \* print('hello world')
      Program(FALSE, 1, 0, 120),                    \* print(undefined_name)
      Program(FALSE, 0, MAX_OUTPUT_SIZE + 1, 0),    \* print('x' * 10240)
      Program(FALSE, 137, MAX_OUTPUT_SIZE, MAX_OUTPUT_SIZE + 1),
      Program(TRUE, 0, 0, 0) }                      \* while True: pass

\* n regular files f1, f2, ... of one size that storage accepts.
NumberedFiles(n, size) ==
    [i \in 1..n |-> Member(TRUE, <<<<"output">>, <<"f", ToString(i)>>>>, size, "url")]

BigFile == Member(TRUE, <<<<"output">>, <<"big", ".bin">>>>, MAX_FILE_SIZE + 1, "url")

SampleArchives ==
    { [found |-> FALSE, members |-> <<>>],
      [found |-> TRUE,
       members |-> <<Member(FALSE, <<<<"output">>>>, 0, "url"),
                     Member(TRUE, <<<<"output">>, <<"plot", ".png">>>>, 2048, "url"),
                     Member(TRUE, <<<<"output">>, <<".", "cache">>>>, 10, "url"),
                     Member(TRUE, <<<<"output">>, <<"empty", ".txt">>>>, 0, "url"),
                     BigFile,
                     Member(TRUE, <<<<"output">>, <<"data", ".csv">>>>, 100, "raise")>>],
      \* files that cannot be read, saved or given a url among files that can
      [found |-> TRUE,
       members |-> <<Member(TRUE, <<<<"output">>, <<"a", ".txt">>>>, 10, "raise"),
                     Member(TRUE, <<<<"output">>, <<"b", ".txt">>>>, 10, "url"),
                     Member(TRUE, <<<<"output">>, <<"c", ".txt">>>>, 10, "url_raise"),
                     Member(TRUE, <<<<"output">>, <<"d", ".txt">>>>, 10, "none"),
                     Member(TRUE, <<<<"output">>, <<"e", ".txt">>>>, 10, "url"),
                     Member(TRUE, <<<<"output">>, <<"f", ".txt">>>>, 10, "read_error"),
                     Member(TRUE, <<<<"output">>, <<"g", ".txt">>>>, 10, "url")>>],
      \* a file over the per-file limit among MAX_FILE_COUNT others
      [found |-> TRUE,
       members |-> <<Member(TRUE, <<<<"output">>, <<"f", "0">>>>, 1, "url"), BigFile>>
                   \o NumberedFiles(MAX_FILE_COUNT - 1, 100)],
      \* files of the per-file limit up to the total limit, then one more
      [found |-> TRUE,
       members |-> <<BigFile>>
                   \o NumberedFiles(MAX_TOTAL_SIZE \div MAX_FILE_SIZE, MAX_FILE_SIZE)
                   \o <<Member(TRUE, <<<<"output">>, <<"last", ".txt">>>>, 1, "url"),
                        Member(TRUE, <<<<"output">>, <<"more", ".txt">>>>, 1, "url")>>] }
    \cup { [found |-> TRUE, members |-> NumberedFiles(MAX_FILE_COUNT + k, 100)] :
              k \in 1..MaxExtraFiles }

NoInput ==
    [program |-> Program(FALSE, 0, 0, 0), storage |-> "none",
     archive |-> [found |-> FALSE, members |-> <<>>]]

DockerInputs ==
    [program : SamplePrograms, storage : {"disabled", "enabled"},
     archive : SampleArchives]

DockerFrame == UNCHANGED <<svcVars, fcVars, valVars, apiVars, guestVars>>

\* execute is called: lines 68-70.
DockerExecute ==
    /\ dkPc \in {"idle", "returned"}
    /\ Len(containers) < MaxRuns
    /\ dkInput' \in DockerInputs
    /\ container' = NoContainer
    /\ waitResult' = NoWait
    /\ dkLogs' = NoLogs
    /\ dkExc' = NoExc
    /\ dkReturn' = NoReturn
    /\ member_idx' = 0
    /\ file_count' = 0
    /\ total_size' = 0
    /\ file_urls' = <<>>
    /\ saved' = <<>>
    /\ archive_reads' = 0
    /\ dkPc' = "run"
    /\ UNCHANGED <<containers, removals>>
    /\ DockerFrame

\* client.containers.run(..., detach=True): the started container, or an
\* error of the daemon with no container handed back.
ContainersRun ==
    /\ dkPc = "run"
    /\ \/ /\ containers' = Append(containers, "running")
          /\ container' = Len(containers) + 1
          /\ dkPc' = "wait"
          /\ UNCHANGED dkExc
       \/ /\ dkExc' \in {Exc("ImageNotFound", FALSE, 0), Exc("APIError", FALSE, 0)}
          /\ dkPc' = "except"
          /\ UNCHANGED <<containers, container>>
    /\ UNCHANGED <<waitResult, dkLogs, dkReturn, dkInput, removals>>
    /\ UNCHANGED exVars
    /\ DockerFrame

\* container.wait(timeout=timeout): the exit status, a read timeout, or an
\* error of the daemon.
ContainerWait ==
    /\ dkPc = "wait"
    /\ \/ /\ ~dkInput.program.hangs
          /\ waitResult' = [done |-> TRUE, StatusCode |-> dkInput.program.exit]
          /\ containers' = [containers EXCEPT ![container] = "exited"]
          /\ dkPc' = "logs"
          /\ UNCHANGED dkExc
       \/ /\ dkExc' \in {Exc("ReadTimeout", TRUE, 0), Exc("APIError", FALSE, 0)}
          /\ dkPc' = "except"
          /\ UNCHANGED <<waitResult, containers>>
    /\ UNCHANGED <<container, dkLogs, dkReturn, dkInput, removals>>
    /\ UNCHANGED exVars
    /\ DockerFrame

\* container.logs twice, then _truncate_output twice: lines 101-106.
ContainerLogs ==
    /\ dkPc = "logs"
    /\ \/ /\ dkLogs' = [stdout |-> TruncateOutput(dkInput.program.stdout),
                        stderr |-> TruncateOutput(dkInput.program.stderr)]
          /\ dkPc' = "extract"
          /\ UNCHANGED dkExc
       \/ /\ dkExc' = Exc("APIError", FALSE, 0)
          /\ dkPc' = "except"
          /\ UNCHANGED dkLogs
    /\ UNCHANGED <<container, waitResult, dkReturn, dkInput, containers, removals>>
    /\ UNCHANGED exVars
    /\ DockerFrame

\* Whether _extract_and_save_files goes on to container.get_archive: not
\* when there is no storage manager or it is not enabled; lines 176-184.
ArchiveRead(storage) == storage = "enabled"

\* The mutant of AfterSave without the try around save_file and
\* generate_presigned_url: the exception ends the loop in the outer handler.
AfterSaveUnguarded(outcome) ==
    [url |-> outcome = "url", goes_on |-> outcome \in {"url", "none"}]

\* What the loop does once a file's content is read: whether a url is
\* appended and whether the loop goes on to the next member; lines 235-254.
AfterSave(outcome) == [url |-> outcome = "url", goes_on |-> TRUE]

\* _extract_and_save_files up to its loop: lines 175-196. With no enabled
\* storage manager it returns the empty list at once; when get_archive
\* raises, the outer handler returns it.
ExtractBegin ==
    /\ dkPc = "extract"
    /\ file_count' = 0
    /\ total_size' = 0
    /\ file_urls' = <<>>
    /\ saved' = <<>>
    /\ archive_reads' = IF ArchiveRead(dkInput.storage) THEN 1 ELSE 0
    /\ IF ArchiveRead(dkInput.storage) /\ dkInput.archive.found
          /\ dkInput.archive.members # <<>>
       THEN member_idx' = 1 /\ dkPc' = "extract_loop"
       ELSE member_idx' = 0 /\ dkPc' = "return"
    /\ UNCHANGED <<container, waitResult, dkLogs, dkExc, dkReturn, dkInput,
                   containers, removals>>
    /\ DockerFrame

\* One iteration of the loop over tar.getmembers(): lines 197-254. A file
\* that cannot be read ends the loop in the outer handler (256-261) before
\* it is counted.
ExtractMember ==
    /\ dkPc = "extract_loop"
    /\ LET member == dkInput.archive.members[member_idx]
           verdict == MemberVerdict(member, file_count, total_size)
           read == verdict = "save" /\ member.save # "read_error"
           ends == \/ verdict = "break"
                   \/ verdict = "save" /\ member.save = "read_error"
                   \/ read /\ ~AfterSave(member.save).goes_on
                   \/ member_idx = Len(dkInput.archive.members)
       IN  /\ IF read
              THEN /\ file_count' = file_count + 1
                   /\ total_size' = total_size + member.size
                   /\ saved' = Append(saved, member)
                   /\ file_urls' = IF AfterSave(member.save).url
                                   THEN Append(file_urls, BaseName(member.name))
                                   ELSE file_urls
              ELSE UNCHANGED <<file_count, total_size, saved, file_urls>>
           /\ IF ends
              THEN dkPc' = "return" /\ UNCHANGED member_idx
              ELSE dkPc' = "extract_loop" /\ member_idx' = member_idx + 1
    /\ UNCHANGED <<container, waitResult, dkLogs, dkExc, dkReturn, dkInput,
                   containers, removals, archive_reads>>
    /\ DockerFrame

\* `return file_urls` and the normal return of execute: lines 109-121, 263.
ExtractAndReturn ==
    /\ dkPc = "return"
    /\ dkReturn' = SuccessResult(dkLogs.stdout, dkLogs.stderr,
                                 waitResult.StatusCode, file_urls)
    /\ dkPc' = "finally"
    /\ UNCHANGED <<container, waitResult, dkLogs, dkExc, dkInput, containers,
                   removals>>
    /\ UNCHANGED exVars
    /\ DockerFrame

\* The except clauses: lines 123-154.
DockerExcept ==
    /\ dkPc = "except"
    /\ dkReturn' = ExceptResult(dkExc)
    /\ dkPc' = "finally"
    /\ UNCHANGED <<container, waitResult, dkLogs, dkExc, dkInput, containers,
                   removals>>
    /\ UNCHANGED exVars
    /\ DockerFrame

\* The finally block, then the return to the caller: lines 156-162.
DockerFinally ==
    /\ dkPc = "finally"
    /\ IF NeedsRemoval(container)
       THEN \E raised \in BOOLEAN :
                /\ removals' = Append(removals, [id |-> container, raised |-> raised])
                /\ containers' = IF raised THEN containers
                                 ELSE [containers EXCEPT ![container] = "removed"]
       ELSE UNCHANGED <<containers, removals>>
    /\ dkPc' = "returned"
    /\ UNCHANGED <<container, waitResult, dkLogs, dkExc, dkReturn, dkInput>>
    /\ UNCHANGED exVars
    /\ DockerFrame

\* ---------------------------------- FirecrackerExecutor (firecracker.py)

\* socket_path = "<dir>/<vm_id>.sock" and the vsock uds_path, as files of
\* the socket directory.
SockFile(vm) == [vm |-> vm, ext |-> "sock"]

VsockFile(vm) == [vm |-> vm, ext |-> "vsock"]

NoProcess == 0

NoVmResult ==
    [success |-> FALSE, stdout |-> EmptyText, stderr |-> EmptyText,
     exit_code |-> 0, error |-> "None"]

\* What _execute_code_in_vm makes of the guest agent's response.
AgentResult(response) ==
    [success |-> response.success, stdout |-> response.stdout,
     stderr |-> response.stderr, exit_code |-> response.exit_code,
     error |-> "None"]

\* The dicts of its `except socket.timeout` and `except Exception`.
VmFailure(timedOut) ==
    [success |-> FALSE, stdout |-> EmptyText, stderr |-> Text(1, FALSE),
     exit_code |-> -1,
     error |-> IF timedOut THEN "Execution timeout" ELSE "Code execution failed"]

\* What can happen to the exchange with the guest agent, from connect to
\* the decoding of the response: lines 343-380.
RpcEvents ==
    { "connect_refused", "connect_timeout", "send_error", "send_timeout",
      "length_timeout", "closed_before_length", "closed_in_length",
      "body_timeout", "closed_before_body", "closed_in_body",
      "undecodable", "not_an_object", "ok" }

\* The exception the event ends in: socket.timeout from connect, sendall and
\* recv under sock.settimeout; ExecutionError for a guest agent that is not
\* ready after 10 s and for an empty read; struct.error
\* for a short length prefix; json's or unicode's error for a short or
\* undecodable body; AttributeError for a response that is not an object.
RpcException(event) ==
    CASE event \in {"connect_timeout", "send_timeout", "length_timeout",
                    "body_timeout"} -> "socket.timeout"
      [] event = "connect_refused" -> "ConnectionRefusedError"
      [] event = "send_error" -> "BrokenPipeError"
      [] event \in {"agent_not_ready", "closed_before_length",
                    "closed_before_body"} -> "ExecutionError"
      [] event = "closed_in_length" -> "struct.error"
      [] event \in {"closed_in_body", "undecodable"} -> "ValueError"
      [] event = "not_an_object" -> "AttributeError"
      [] OTHER -> "none"

\* The mutant of RpcResult without the `except socket.timeout` clause.
RpcResultNoTimeoutClause(event, response) ==
    IF RpcException(event) # "none" THEN VmFailure(FALSE)
    ELSE AgentResult(response)

\* What _execute_code_in_vm returns after the exchange: lines 346-400.
RpcResult(event, response) ==
    IF RpcException(event) = "socket.timeout" THEN VmFailure(TRUE)
    ELSE IF RpcException(event) # "none" THEN VmFailure(FALSE)
    ELSE AgentResult(response)

\* What the exchange puts on the vsock: the connection, and the request
\* when sendall went through.
RpcTraffic(event) ==
    IF event \in {"connect_refused", "connect_timeout"}
    THEN <<"connect">>
    ELSE IF event \in {"send_error", "send_timeout"}
    THEN <<"connect", "send_failed">>
    ELSE <<"connect", "execute">>

\* A file the guest lists, with what it answers to get_file: nothing, a
\* length over MAX_FILE_SIZE, or the content.
ListedFile(name, reply) == [name |-> name, reply |-> reply]

\* The get_file requests of the loop over the listed files: a file without
\* answer or over the size limit is passed over; the first content received
\* is handed to save_file(file_path=..., content=...), which StorageManager.
\* save_file(file_content, filename, execution_id) rejects with TypeError,
\* and the outer handler ends the extraction.
RECURSIVE GetFileRequests(_)
GetFileRequests(listing) ==
    IF listing = <<>> THEN <<>>
    ELSE <<"get_file">> \o (IF Head(listing).reply = "data" THEN <<>>
                            ELSE GetFileRequests(Tail(listing)))

\* What can happen to the listing request of _extract_files.
FcExtractEvents == {"connect_fails", "list_unanswered", "list_error", "listed"}

\* The mutant of FcExtractFiles that does not look at STORAGE_ENABLED.
FcExtractFilesAlways(storage_enabled, listing, event) ==
    [entered |-> TRUE,
     urls |-> <<>>,
     traffic |-> IF event = "connect_fails" THEN <<"connect">>
                 ELSE IF event = "listed"
                 THEN <<"connect", "list_files">> \o GetFileRequests(listing)
                 ELSE <<"connect", "list_files">>]

\* _extract_files: whether it went past the STORAGE_ENABLED test, the urls
\* it returns and what it put on the vsock: lines 431-514. No url is ever
\* appended: save_file raises before line 506 is reached.
FcExtractFiles(storage_enabled, listing, event) ==
    IF ~storage_enabled
    THEN [entered |-> FALSE, urls |-> <<>>, traffic |-> <<>>]
    ELSE [entered |-> TRUE,
          urls |-> <<>>,
          traffic |-> IF event = "connect_fails" THEN <<"connect">>
                      ELSE IF event = "listed"
                      THEN <<"connect", "list_files">> \o GetFileRequests(listing)
                      ELSE <<"connect", "list_files">>]

\* The dict of the normal return.
FcResult(r, files) ==
    [returned |-> TRUE, success |-> r.success, stdout |-> r.stdout,
     stderr |-> r.stderr, exit_code |-> r.exit_code, error |-> r.error,
     files |-> files]

\* The dicts of `except asyncio.TimeoutError` and `except Exception`.
FcExceptResult(e) ==
    [returned |-> TRUE, success |-> FALSE, stdout |-> EmptyText,
     stderr |-> e.msg, exit_code |-> -1,
     error |-> IF e.cls = "TimeoutError" THEN "Execution timeout"
                                         ELSE "Firecracker execution failed",
     files |-> <<>>]

\* The PUTs of _configure_vm, in the order of the code, then the one of
\* _boot_vm.
ConfigCalls == <<"boot-source", "drives/rootfs", "machine-config", "vsock">>

BootCall == "actions"

\* A call of the control API: the path, the status of the response (0 when
\* the request raised instead) and the body of the response.
ApiCall(path, status, body) == [path |-> path, status |-> status, body |-> body]

\* The mutant of StatusAccepted that takes 201 for every call.
StatusAcceptedLenient(path, status) == status \in {204, 201}

\* resp.status != 204, and resp.status not in (204, 201) for /vsock.
StatusAccepted(path, status) ==
    IF path = "vsock" THEN status \in {204, 201} ELSE status = 204

\* The responses of the control API: accepted, created, refused with a
\* fault message.
ApiResponses ==
    { [status |-> 204, body |-> EmptyText],
      [status |-> 201, body |-> EmptyText],
      [status |-> 400, body |-> Text(64, FALSE)] }

\* ExecutionError(f"Failed to set ...: {text}")
ApiError(body) ==
    [Exc("ExecutionError", FALSE, 0) EXCEPT !.msg = Text(1 + body.len, FALSE),
                                            !.body = body]

\* The mutant of SocketWaitExpired for `while True`.
SocketWaitNeverExpires(n) == FALSE

\* time.time() - start >= timeout, in sleeps of _wait_for_socket.
SocketWaitExpired(n) == n >= MaxPolls

\* time.time() - start >= timeout, in sleeps of _wait_for_guest_agent.
AgentWaitExpired(n) == n >= MaxPolls

\* The mutant of TeardownLog with one try around the whole finally block.
TeardownLogOneTry(hasProcess, killRaises, waitRaises, unlinkRaises) ==
    IF hasProcess /\ killRaises THEN <<[action |-> "kill", raised |-> TRUE]>>
    ELSE IF hasProcess /\ waitRaises
    THEN <<[action |-> "kill", raised |-> FALSE],
           [action |-> "wait", raised |-> TRUE]>>
    ELSE (IF hasProcess THEN <<[action |-> "kill", raised |-> FALSE],
                               [action |-> "wait", raised |-> FALSE]>>
          ELSE <<>>) \o <<[action |-> "unlink", raised |-> unlinkRaises]>>

\* The calls of the finally block, each with whether it raised: kill and
\* wait(timeout=5) in one try, unlink in another; lines 192-205.
TeardownLog(hasProcess, killRaises, waitRaises, unlinkRaises) ==
    (IF ~hasProcess THEN <<>>
     ELSE IF killRaises THEN <<[action |-> "kill", raised |-> TRUE]>>
     ELSE <<[action |-> "kill", raised |-> FALSE],
            [action |-> "wait", raised |-> waitRaises]>>)
    \o <<[action |-> "unlink", raised |-> unlinkRaises]>>

\* What subprocess.run of the guest agent ends in: the exit of the
\* interpreter with status 0 or 1, TimeoutExpired, or another exception.
SubprocessOutcomes == {"exit_0", "exit_1", "timeout", "error"}

\* result.returncode, result.stdout and result.stderr of a run that exited.
CompletedProcess(outcome) ==
    IF outcome = "exit_0"
    THEN [returncode |-> 0, stdout |-> Text(12, FALSE), stderr |-> EmptyText]
    ELSE [returncode |-> 1, stdout |-> EmptyText, stderr |-> Text(120, FALSE)]

\* The mutant of HandleExecute that reports a run that exited as a success.
HandleExecuteAnyExit(outcome) ==
    IF outcome = "timeout"
    THEN [success |-> FALSE, stdout |-> EmptyText, stderr |-> Text(34, FALSE),
          exit_code |-> -1]
    ELSE IF outcome = "error"
    THEN [success |-> FALSE, stdout |-> EmptyText, stderr |-> Text(1, FALSE),
          exit_code |-> -1]
    ELSE [success |-> TRUE,
          stdout |-> CompletedProcess(outcome).stdout,
          stderr |-> CompletedProcess(outcome).stderr,
          exit_code |-> CompletedProcess(outcome).returncode]

\* handle_execute of the guest agent: the dict it answers the execute
\* request with; the text of its timeout branch is 'Execution timeout after
\* 30 seconds'.  None of its dicts has an 'error' key.
HandleExecute(outcome) ==
    IF outcome = "timeout"
    THEN [success |-> FALSE, stdout |-> EmptyText, stderr |-> Text(34, FALSE),
          exit_code |-> -1]
    ELSE IF outcome = "error"
    THEN [success |-> FALSE, stdout |-> EmptyText, stderr |-> Text(1, FALSE),
          exit_code |-> -1]
    ELSE [success |-> CompletedProcess(outcome).returncode = 0,
          stdout |-> CompletedProcess(outcome).stdout,
          stderr |-> CompletedProcess(outcome).stderr,
          exit_code |-> CompletedProcess(outcome).returncode]

\* No response of the guest agent has been decoded.
NoGuestRun ==
    [outcome |-> "none",
     response |-> [success |-> FALSE, stdout |-> EmptyText, stderr |-> EmptyText,
                   exit_code |-> 0]]

\* The listings of /tmp/output the guest answers with.
SampleListings ==
    { <<>>,
      <<ListedFile(<<"big", ".bin">>, "oversize"),
        ListedFile(<<"gone", ".txt">>, "none"),
        ListedFile(<<"plot", ".png">>, "data"),
        ListedFile(<<"data", ".csv">>, "data")>> }

NoFcInput == [storage_enabled |-> FALSE, socket |-> "never", agent |-> "never"]

\* A session's environment: STORAGE_ENABLED, and whether the hypervisor
\* creates its API socket and the guest agent accepts connections by now,
\* after one more sleep of the host, or never.
FcInputs ==
    [storage_enabled : BOOLEAN, socket : {"at_once", "late", "never"},
     agent : {"at_once", "late", "never"}]

\* Path(...).exists(), and connect(...) going through.
Appeared(when) == when = "at_once"

\* The environment after a sleep of the host.
AfterSleep(when) == IF when = "late" THEN "at_once" ELSE when

FcFrame == UNCHANGED <<svcVars, dkVars, valVars, apiVars, guestVars>>

\* The steps of a session, as execute calls them.
Enter(step) == fcSteps' = Append(fcSteps, step)

\* execute is called: lines 127-130.
FcExecute ==
    /\ fcPc \in {"idle", "returned"}
    /\ vm_id < MaxRuns
    /\ vm_id' = vm_id + 1
    /\ fcInput' \in FcInputs
    /\ firecracker_process' = NoProcess
    /\ fcResult' = NoVmResult
    /\ fcExc' = NoExc
    /\ fcReturn' = NoReturn
    /\ fcSteps' = <<"start_firecracker">>
    /\ apiCalls' = <<>>
    /\ rpcLog' = <<>>
    /\ teardown' = <<>>
    /\ polls' = 0
    /\ rpcEvent' = "none"
    /\ guestRun' = NoGuestRun
    /\ fcPc' = "start"
    /\ UNCHANGED <<processes, socketDir, kills>>
    /\ FcFrame

\* _start_firecracker: Popen fails, or the process has exited after 0.1 s,
\* or it is running and is returned.
StartFirecracker ==
    /\ fcPc = "start"
    /\ \/ /\ fcExc' = Exc("ExecutionError", FALSE, 0)
          /\ fcPc' = "except"
          /\ UNCHANGED <<processes, firecracker_process, fcSteps>>
       \/ /\ processes' = [processes EXCEPT ![vm_id] = "exited"]
          /\ fcExc' = Exc("ExecutionError", FALSE, 0)
          /\ fcPc' = "except"
          /\ UNCHANGED <<firecracker_process, fcSteps>>
       \/ /\ processes' = [processes EXCEPT ![vm_id] = "running"]
          /\ firecracker_process' = vm_id
          /\ fcPc' = "wait_socket"
          /\ Enter("wait_for_socket")
          /\ UNCHANGED fcExc
    /\ UNCHANGED <<vm_id, fcResult, fcReturn, fcInput, socketDir, kills,
                   apiCalls, rpcLog, teardown, polls,
                   rpcEvent, guestRun>>
    /\ FcFrame

\* One turn of the loop of _wait_for_socket: out of time, or the socket is
\* there, or a sleep of 0.1 s.
WaitForSocket ==
    /\ fcPc = "wait_socket"
    /\ IF SocketWaitExpired(polls)
       THEN /\ fcExc' = Exc("ExecutionError", FALSE, 0)
            /\ fcPc' = "except"
            /\ UNCHANGED <<socketDir, polls, fcSteps, fcInput>>
       ELSE IF Appeared(fcInput.socket)
       THEN /\ socketDir' = socketDir \cup {SockFile(vm_id)}
            /\ fcPc' = "configure"
            /\ polls' = 0
            /\ Enter("configure_vm")
            /\ UNCHANGED <<fcExc, fcInput>>
       ELSE /\ polls' = IF polls < MaxPolls THEN polls + 1 ELSE polls
            /\ fcInput' = [fcInput EXCEPT !.socket = AfterSleep(@)]
            /\ UNCHANGED <<socketDir, fcPc, fcExc, fcSteps>>
    /\ UNCHANGED <<vm_id, firecracker_process, fcResult, fcReturn,
                   processes, kills, apiCalls, rpcLog, teardown,
                   rpcEvent, guestRun>>
    /\ FcFrame

\* The next PUT of _configure_vm: it raises (no connection, timeout of the
\* session), or the response is accepted and the next call follows, or it
\* is refused and ExecutionError carries its text. The hypervisor binds the
\* vsock path when it accepts PUT /vsock or when it boots.
ConfigureVm ==
    /\ fcPc = "configure"
    /\ LET path == ConfigCalls[Len(apiCalls) + 1]
       IN  \/ /\ apiCalls' = Append(apiCalls, ApiCall(path, 0, EmptyText))
              /\ fcExc' \in {Exc("ClientError", FALSE, 0),
                             Exc("TimeoutError", TRUE, 0)}
              /\ fcPc' = "except"
              /\ UNCHANGED <<socketDir, fcSteps>>
           \/ \E resp \in ApiResponses :
                /\ apiCalls' = Append(apiCalls, ApiCall(path, resp.status, resp.body))
                /\ IF ~StatusAccepted(path, resp.status)
                   THEN /\ fcExc' = ApiError(resp.body)
                        /\ fcPc' = "except"
                        /\ UNCHANGED <<socketDir, fcSteps>>
                   ELSE /\ UNCHANGED fcExc
                        /\ IF path = "vsock"
                           THEN \E bound \in BOOLEAN :
                                  socketDir' = IF bound
                                               THEN socketDir \cup {VsockFile(vm_id)}
                                               ELSE socketDir
                           ELSE UNCHANGED socketDir
                        /\ IF Len(apiCalls) + 1 = Len(ConfigCalls)
                           THEN fcPc' = "boot" /\ Enter("boot_vm")
                           ELSE UNCHANGED <<fcPc, fcSteps>>
    /\ UNCHANGED <<vm_id, firecracker_process, fcResult, fcReturn, fcInput,
                   processes, kills, rpcLog, teardown, polls,
                   rpcEvent, guestRun>>
    /\ FcFrame

\* _boot_vm: PUT /actions InstanceStart.
BootVm ==
    /\ fcPc = "boot"
    /\ \/ /\ apiCalls' = Append(apiCalls, ApiCall(BootCall, 0, EmptyText))
          /\ fcExc' \in {Exc("ClientError", FALSE, 0),
                         Exc("TimeoutError", TRUE, 0)}
          /\ fcPc' = "except"
          /\ UNCHANGED <<socketDir, fcSteps>>
       \/ \E resp \in ApiResponses :
            /\ apiCalls' = Append(apiCalls, ApiCall(BootCall, resp.status, resp.body))
            /\ IF ~StatusAccepted(BootCall, resp.status)
               THEN /\ fcExc' = ApiError(resp.body)
                    /\ fcPc' = "except"
                    /\ UNCHANGED <<socketDir, fcSteps>>
               ELSE /\ UNCHANGED fcExc
                    /\ \E bound \in BOOLEAN :
                          socketDir' = IF bound
                                       THEN socketDir \cup {VsockFile(vm_id)}
                                       ELSE socketDir
                    /\ fcPc' = "wait_agent"
                    /\ Enter("execute_code_in_vm")
    /\ UNCHANGED <<vm_id, firecracker_process, fcResult, fcReturn, fcInput,
                   processes, kills, rpcLog, teardown, polls,
                   rpcEvent, guestRun>>
    /\ FcFrame

\* One turn of the loop of _wait_for_guest_agent inside _execute_code_in_vm:
\* out of time ("Guest agent not ready", caught by `except Exception`), or
\* the vsock path is there and a connection is accepted, or a sleep.
WaitForGuestAgent ==
    /\ fcPc = "wait_agent"
    /\ IF AgentWaitExpired(polls)
       THEN /\ fcResult' = RpcResult("agent_not_ready", NoVmResult)
            /\ rpcEvent' = "agent_not_ready"
            /\ fcPc' = "extract"
            /\ UNCHANGED <<polls, rpcLog, fcInput>>
       ELSE IF VsockFile(vm_id) \in socketDir /\ Appeared(fcInput.agent)
       THEN /\ rpcLog' = Append(rpcLog, "probe")
            /\ fcPc' = "rpc"
            /\ polls' = 0
            /\ UNCHANGED <<fcResult, rpcEvent, fcInput>>
       ELSE /\ polls' = IF polls < MaxPolls THEN polls + 1 ELSE polls
            /\ fcInput' = [fcInput EXCEPT !.agent = AfterSleep(@)]
            /\ UNCHANGED <<fcResult, fcPc, rpcLog, rpcEvent>>
    /\ UNCHANGED <<vm_id, firecracker_process, fcExc, fcReturn,
                   processes, socketDir, kills, fcSteps, apiCalls, teardown,
                   guestRun>>
    /\ FcFrame

\* The exchange of _execute_code_in_vm with the guest agent; it never
\* raises: lines 343-400.
ExecuteCodeInVm ==
    /\ fcPc = "rpc"
    /\ \E event \in RpcEvents, outcome \in SubprocessOutcomes :
          /\ fcResult' = RpcResult(event, HandleExecute(outcome))
          /\ rpcEvent' = event
          /\ guestRun' = IF event = "ok"
                         THEN [outcome |-> outcome,
                               response |-> HandleExecute(outcome)]
                         ELSE NoGuestRun
          /\ rpcLog' = rpcLog \o RpcTraffic(event)
    /\ fcPc' = "extract"
    /\ UNCHANGED <<vm_id, firecracker_process, fcExc, fcReturn, fcInput,
                   processes, socketDir, kills, fcSteps, apiCalls, teardown,
                   polls>>
    /\ FcFrame

\* _extract_files and the normal return: lines 154-166.
FcExtractAndReturn ==
    /\ fcPc = "extract"
    /\ \E event \in FcExtractEvents, listing \in SampleListings :
          LET x == FcExtractFiles(fcInput.storage_enabled, listing, event)
          IN  /\ fcReturn' = FcResult(fcResult, x.urls)
              /\ rpcLog' = rpcLog \o x.traffic
              /\ fcSteps' = IF x.entered THEN Append(fcSteps, "extract_files")
                            ELSE fcSteps
    /\ fcPc' = "finally"
    /\ UNCHANGED <<vm_id, firecracker_process, fcResult, fcExc, fcInput,
                   processes, socketDir, kills, apiCalls, teardown, polls,
                   rpcEvent, guestRun>>
    /\ FcFrame

\* The except clauses: lines 168-190.
FcExcept ==
    /\ fcPc = "except"
    /\ fcReturn' = FcExceptResult(fcExc)
    /\ fcPc' = "finally"
    /\ UNCHANGED <<vm_id, firecracker_process, fcResult, fcExc, fcInput,
                   processes, socketDir, kills, fcSteps, apiCalls, rpcLog,
                   teardown, polls,
                   rpcEvent, guestRun>>
    /\ FcFrame

\* The finally block, then the return to the caller: lines 192-205. kill,
\* wait(timeout=5) and unlink may each raise; wait raises TimeoutExpired
\* after its 5 s.
FcFinally ==
    /\ fcPc = "finally"
    /\ \E killRaises, waitRaises, unlinkRaises \in BOOLEAN :
          LET log == TeardownLog(firecracker_process # NoProcess, killRaises,
                                 waitRaises, unlinkRaises)
              done(a) == \E i \in 1..Len(log) : log[i].action = a /\ ~log[i].raised
          IN  /\ teardown' = log
              /\ IF done("kill")
                 THEN /\ processes' = [processes EXCEPT
                              ![firecracker_process] = "killed"]
                      /\ kills' = Append(kills, firecracker_process)
                 ELSE UNCHANGED <<processes, kills>>
              /\ socketDir' = IF done("unlink") THEN socketDir \ {SockFile(vm_id)}
                              ELSE socketDir
    /\ Enter("teardown")
    /\ fcPc' = "returned"
    /\ UNCHANGED <<vm_id, firecracker_process, fcResult, fcExc, fcReturn, fcInput,
                   apiCalls, rpcLog, polls,
                   rpcEvent, guestRun>>
    /\ FcFrame

\* ----------------------------- the guest agent (firecracker-guest-agent)

\* What goes over the connection, in the pieces the code packs: a 4-byte
\* big-endian length, a UTF-8 JSON text, or raw bytes; n is the number the
\* length holds or the number of bytes of the payload.
NoObject ==
    [kind |-> "none", action |-> <<>>, result |-> NoGuestRun.response,
     files |-> <<>>]

LengthPrefix(n) == [role |-> "length", n |-> n, obj |-> NoObject]

RawPayload(n) == [role |-> "raw", n |-> n, obj |-> NoObject]

\* len(json.dumps(obj).encode('utf-8')): the braces, keys and punctuation
\* of the dict and the characters of its values, a fragment counting as one
\* character.
JsonLen(obj) ==
    CASE obj.kind = "error" -> 29 + Len(obj.action)
      [] obj.kind = "result" -> 62 + obj.result.stdout.len + obj.result.stderr.len
      [] obj.kind = "files" -> 13 + 4 * Len(obj.files)
      [] OTHER -> 2

JsonPayload(obj) == [role |-> "json", n |-> JsonLen(obj), obj |-> obj]

\* send_response: one sendall of the length and the JSON text.
SendResponse(obj) == <<LengthPrefix(JsonLen(obj)), JsonPayload(obj)>>

\* A path of the guest as get_file finds it: nothing there, a directory, a
\* regular file that cannot be read, or a regular file of `size` bytes.
GuestFile(kind, size) == [kind |-> kind, size |-> size]

NoGuestFile == GuestFile("missing", 0)

\* The mutant of HandleGetFile that answers a file it cannot send with the
\* JSON error object.
HandleGetFileJsonError(file) ==
    IF file.kind = "regular"
    THEN IF file.size = 0 THEN <<LengthPrefix(0)>>
         ELSE <<LengthPrefix(file.size), RawPayload(file.size)>>
    ELSE SendResponse([NoObject EXCEPT !.kind = "error"])

\* handle_get_file for a path that is a string: pack(0) for a path that
\* does not exist or is not a regular file, pack(len) + content for a file
\* that read_bytes returns, pack(0) from the except clause for one it
\* does not.
HandleGetFile(file) ==
    IF file.kind = "regular"
    THEN IF file.size = 0 THEN <<LengthPrefix(0)>>
         ELSE <<LengthPrefix(file.size), RawPayload(file.size)>>
    ELSE <<LengthPrefix(0)>>

\* handle_list_files: the names of the regular files of the directory, no
\* names for a directory that is not there, an error text with no names
\* when iterdir raises.
HandleListFiles(dir) ==
    [NoObject EXCEPT !.kind = "files",
                     !.files = IF dir = "listed" THEN <<<<"plot", ".png">>>>
                               ELSE <<>>]

\* What handle_request reads: the peer closed before or inside the length
\* or the body, a length of zero, a body that is not UTF-8 JSON, a JSON
\* text that is not an object, or a JSON object.
RequestReads ==
    { "closed", "closed_in_length", "zero_length", "closed_before_body",
      "closed_in_body", "undecodable", "not_an_object", "object" }

NoAgentRequest ==
    [read |-> "closed", action |-> <<>>, run |-> "none", dir |-> "none",
     file |-> NoGuestFile]

\* The requests: the reads that end in no request, and the objects with
\* the three actions, with no 'action' key and with other actions.
AgentRequests ==
    { [NoAgentRequest EXCEPT !.read = r] : r \in RequestReads \ {"object"} }
    \cup { [NoAgentRequest EXCEPT !.read = "object", !.action = <<"execute">>,
                                  !.run = o] : o \in SubprocessOutcomes }
    \cup { [NoAgentRequest EXCEPT !.read = "object", !.action = <<"list_files">>,
                                  !.dir = d] : d \in {"missing", "listed", "error"} }
    \cup { [NoAgentRequest EXCEPT !.read = "object", !.action = <<"get_file">>,
                                  !.file = f] :
             f \in { GuestFile("missing", 0), GuestFile("directory", 0),
                     GuestFile("unreadable", 100), GuestFile("regular", 0),
                     GuestFile("regular", 100) } }
    \cup { [NoAgentRequest EXCEPT !.read = "object", !.action = a] :
             a \in {<<>>, <<"ping">>, <<"get", "_", "file">>} }

\* What the action branches of handle_request put on the connection.
Answer(req) ==
    CASE req.action = <<"execute">> ->
             SendResponse([NoObject EXCEPT !.kind = "result",
                                           !.result = HandleExecute(req.run)])
      [] req.action = <<"list_files">> -> SendResponse(HandleListFiles(req.dir))
      [] req.action = <<"get_file">> -> HandleGetFile(req.file)
      [] OTHER -> SendResponse([NoObject EXCEPT !.kind = "error",
                                                !.action = req.action])

\* The mutant of HandleRequest that ends the connection on an action it
\* does not know.
HandleRequestKnownOnly(req, peerGone) ==
    IF req.read # "object"
    THEN [request |-> req, peer_gone |-> FALSE, sent |-> <<>>, goes_on |-> FALSE]
    ELSE IF peerGone
    THEN [request |-> req, peer_gone |-> TRUE, sent |-> <<>>, goes_on |-> FALSE]
    ELSE IF req.action \notin {<<"execute">>, <<"list_files">>, <<"get_file">>}
    THEN [request |-> req, peer_gone |-> FALSE, sent |-> Answer(req),
          goes_on |-> FALSE]
    ELSE [request |-> req, peer_gone |-> FALSE, sent |-> Answer(req),
          goes_on |-> TRUE]

\* handle_request: False without an answer when the request cannot be read
\* or decoded or is not an object (the returns of lines 118 and 125, and
\* the except clause); False when sendall raises because the peer has gone;
\* else the answer and True.
HandleRequest(req, peerGone) ==
    IF req.read # "object"
    THEN [request |-> req, peer_gone |-> FALSE, sent |-> <<>>, goes_on |-> FALSE]
    ELSE IF peerGone
    THEN [request |-> req, peer_gone |-> TRUE, sent |-> <<>>, goes_on |-> FALSE]
    ELSE [request |-> req, peer_gone |-> FALSE, sent |-> Answer(req),
          goes_on |-> TRUE]

AgentFrame ==
    UNCHANGED <<svcVars, dkVars, fcVars, valVars, apiVars, xVars, ccVars>>

\* sock.accept() returns a connection: line 166.
AgentAccept ==
    /\ agPc = "accept"
    /\ agPc' = "serving"
    /\ agLog' = <<>>
    /\ AgentFrame

\* One turn of `while self.handle_request(conn)`: line 171.  The peer sends
\* at most MaxRequests requests before it closes.
AgentHandleRequest ==
    /\ agPc = "serving"
    /\ \E req \in AgentRequests, peerGone \in BOOLEAN :
          /\ Len(agLog) < MaxRequests \/ req.read = "closed"
          /\ agLog' = Append(agLog, HandleRequest(req, peerGone))
          /\ agPc' = IF HandleRequest(req, peerGone).goes_on THEN "serving"
                     ELSE "closing"
    /\ AgentFrame

\* conn.close() of the finally block, then the next accept: lines 173-174.
AgentClose ==
    /\ agPc = "closing"
    /\ agPc' = "accept"
    /\ UNCHANGED agLog
    /\ AgentFrame

\* --------------------- _extract_files and the guest agent, byte by byte

\* The pieces of the guest's answer to the host's request number req, as
\* they lie in the connection: `bytes` bytes each, 4 for a length.
Tagged(frames, req) ==
    [i \in 1..Len(frames) |->
        [req |-> req, role |-> frames[i].role, val |-> frames[i].n,
         bytes |-> IF frames[i].role = "length" THEN 4 ELSE frames[i].n,
         whole |-> TRUE]]

RECURSIVE StreamBytes(_)
StreamBytes(stream) ==
    IF stream = <<>> THEN 0
    ELSE Head(stream).bytes + StreamBytes(Tail(stream))

\* _recv_exact(sock, k) on a connection that holds at least k bytes: the
\* bytes it returns, by the pieces they come from, and what stays unread.
RECURSIVE Take(_, _)
Take(stream, k) ==
    IF k = 0 \/ stream = <<>> THEN [got |-> <<>>, rest |-> stream]
    ELSE IF Head(stream).bytes <= k
    THEN LET t == Take(Tail(stream), k - Head(stream).bytes)
         IN  [got |-> <<Head(stream)>> \o t.got, rest |-> t.rest]
    ELSE [got |-> <<[Head(stream) EXCEPT !.bytes = k, !.whole = FALSE]>>,
          rest |-> <<[Head(stream) EXCEPT !.bytes = @ - k, !.whole = FALSE]>>
                   \o Tail(stream)]

\* struct.unpack('!I', ...) of 4 bytes: the number the guest packed when
\* they are a length it sent, and whatever the bytes hold when they are not.
Unpacked(got, other) ==
    IF Len(got) = 1 /\ got[1].role = "length" /\ got[1].whole THEN got[1].val
    ELSE other

\* Numbers that 4 bytes of a file's content can hold.
ContentWords == {0, 100, MAX_FILE_SIZE + 1}

\* The mutant of LengthAccepted without the size limit.
LengthAcceptedAny(file_length) == TRUE

\* The test of line 486, negated: the content of the file is read.
LengthAccepted(file_length) == ~(file_length > MAX_FILE_SIZE)

\* The parameters of StorageManager.save_file that have no default, and the
\* keywords _extract_files calls it with.
SaveFileParams == {"file_content", "filename", "execution_id"}

SaveFileKeywords == {"file_path", "content"}

\* Python binds the call when every such parameter is given; else the call
\* raises TypeError before the method runs.
CallBinds(params, keywords) == params \subseteq keywords

\* The files of the guest's output directory, as get_file finds them after
\* they were listed.
ListedFiles ==
    { GuestFile("regular", 100), GuestFile("regular", 0),
      GuestFile("regular", MAX_FILE_SIZE + 1), GuestFile("missing", 0) }

XFrame ==
    UNCHANGED <<svcVars, dkVars, fcVars, valVars, apiVars, agPc, agLog, ccVars>>

\* _extract_files up to the loop: the STORAGE_ENABLED test, the connection,
\* the list_files request and its answer: lines 442-468.
XStart ==
    /\ xPc = "idle"
    /\ \E event \in {"disabled", "connect_fails", "list_unanswered", "listed"},
          listing \in SeqsUpTo(ListedFiles, MaxListed) :
          IF event = "listed"
          THEN /\ xListing' = listing
               /\ xIdx' = 1
               /\ xPc' = "loop"
               /\ xEnd' = "none"
          ELSE /\ xPc' = "returned"
               /\ xEnd' = event
               /\ UNCHANGED <<xListing, xIdx>>
    /\ UNCHANGED <<xStream, xReads, xHanded, xUrls>>
    /\ XFrame

\* One turn of the loop over the listed files: the get_file request, the
\* guest's answer, the read of the length, the size test, the read of the
\* content, save_file and generate_presigned_url: lines 472-506.  A read
\* that finds too few bytes ends in socket.timeout, and that or TypeError
\* in the outer except clause: lines 511-514.
XGetFile ==
    /\ xPc = "loop"
    /\ xIdx <= Len(xListing)
    /\ \E event \in {"answers", "silent"}, other \in ContentWords :
          LET sent == IF event = "answers"
                      THEN Tagged(HandleGetFile(xListing[xIdx]), xIdx)
                      ELSE <<>>
              arrived == xStream \o sent
              head == Take(arrived, 4)
              file_length == Unpacked(head.got, other)
              body == Take(head.rest, file_length)
              lengthRead == [file |-> xIdx, is |-> "length", got |-> head.got]
              contentRead == [file |-> xIdx, is |-> "content", got |-> body.got]
              ends(how) == xPc' = "returned" /\ xEnd' = how /\ UNCHANGED xIdx
              continue == xPc' = "loop" /\ xEnd' = "none" /\ xIdx' = xIdx + 1
          IN  IF StreamBytes(arrived) < 4
              THEN /\ ends("read_timeout")
                   /\ xStream' = <<>>
                   /\ UNCHANGED <<xReads, xHanded, xUrls>>
              ELSE IF ~LengthAccepted(file_length) \/ file_length = 0
              THEN /\ continue
                   /\ xStream' = head.rest
                   /\ xReads' = Append(xReads, lengthRead)
                   /\ UNCHANGED <<xHanded, xUrls>>
              ELSE IF StreamBytes(head.rest) < file_length
              THEN /\ ends("read_timeout")
                   /\ xStream' = <<>>
                   /\ xReads' = Append(xReads, lengthRead)
                   /\ UNCHANGED <<xHanded, xUrls>>
              ELSE /\ xStream' = body.rest
                   /\ xReads' = xReads \o <<lengthRead, contentRead>>
                   /\ xHanded' = Append(xHanded, [file |-> xIdx, size |-> file_length])
                   /\ IF CallBinds(SaveFileParams, SaveFileKeywords)
                      THEN /\ continue
                           /\ xUrls' = Append(xUrls, [file |-> xIdx, size |-> file_length])
                      ELSE /\ ends("TypeError")
                           /\ UNCHANGED xUrls
    /\ UNCHANGED xListing
    /\ XFrame

\* The loop is through: return file_urls, line 514.
XReturn ==
    /\ xPc = "loop"
    /\ xIdx > Len(xListing)
    /\ xPc' = "returned"
    /\ xEnd' = "listing_done"
    /\ UNCHANGED <<xListing, xIdx, xStream, xReads, xHanded, xUrls>>
    /\ XFrame

\* ------------------------------- microVM sessions of concurrent requests

\* A request that is not in execute.
NoSession == [pc |-> "idle", vm_id |-> 0, firecracker_process |-> NoProcess]

\* The mutant of Uuid4 that returns the same value every time.
Uuid4Same(drawn) == 1

\* str(uuid.uuid4()): a value that was not drawn before.
Uuid4(drawn) == drawn + 1

InFlight(s) == sessions[s].pc # "idle"

\* The files of the socket directory named after a vm id.
SessionFiles(vm) == {SockFile(vm), VsockFile(vm)}

CcFrame ==
    UNCHANGED <<svcVars, dkVars, valVars, apiVars, agPc, agLog, xVars,
                fcPc, vm_id, firecracker_process, fcResult, fcExc, fcReturn,
                fcInput, kills, fcSteps, apiCalls, rpcLog, teardown, polls,
                rpcEvent, guestRun>>

\* Request s enters execute: vm_id, firecracker_process = None and
\* socket_path are locals of the call: lines 127-130.
CcExecute(s) ==
    /\ ~InFlight(s)
    /\ uuids < MaxRuns
    /\ sessions' = [sessions EXCEPT
           ![s] = [pc |-> "start", vm_id |-> Uuid4(uuids),
                   firecracker_process |-> NoProcess]]
    /\ uuids' = uuids + 1
    /\ UNCHANGED <<processes, socketDir, teardowns>>
    /\ CcFrame

\* _start_firecracker with the session's vm_id and socket_path: Popen
\* raises, or the hypervisor runs: lines 132-135, 207-238.
CcStart(s) ==
    /\ sessions[s].pc = "start"
    /\ \/ /\ sessions' = [sessions EXCEPT ![s].pc = "finally"]
          /\ UNCHANGED processes
       \/ /\ processes' = [processes EXCEPT ![sessions[s].vm_id] = "running"]
          /\ sessions' = [sessions EXCEPT
                 ![s].pc = "configure",
                 ![s].firecracker_process = sessions[s].vm_id]
    /\ UNCHANGED <<uuids, socketDir, teardowns>>
    /\ CcFrame

\* _wait_for_socket, _configure_vm and _boot_vm: the session's hypervisor
\* creates its API socket and binds its vsock path, or some of it, and the
\* steps go through or one of them raises: lines 137-144.
CcConfigure(s) ==
    /\ sessions[s].pc = "configure"
    /\ \E created \in SUBSET SessionFiles(sessions[s].vm_id), ok \in BOOLEAN :
          /\ socketDir' = socketDir \cup created
          /\ sessions' = [sessions EXCEPT
                 ![s].pc = IF ok /\ created = SessionFiles(sessions[s].vm_id)
                           THEN "run" ELSE "finally"]
    /\ UNCHANGED <<uuids, processes, teardowns>>
    /\ CcFrame

\* _execute_code_in_vm and _extract_files on the session's vsock path, and
\* the return or the except clauses: lines 146-190.
CcRun(s) ==
    /\ sessions[s].pc = "run"
    /\ sessions' = [sessions EXCEPT ![s].pc = "finally"]
    /\ UNCHANGED <<uuids, processes, socketDir, teardowns>>
    /\ CcFrame

\* The finally block of request s: kill() and wait() of its
\* firecracker_process when there is one, unlink of its socket_path; each
\* may raise: lines 192-205.
CcFinally(s) ==
    /\ sessions[s].pc = "finally"
    /\ \E killRaises, unlinkRaises \in BOOLEAN :
          LET proc == sessions[s].firecracker_process
              killed == proc # NoProcess /\ ~killRaises
              removed == IF unlinkRaises THEN {}
                         ELSE socketDir \cap {SockFile(sessions[s].vm_id)}
          IN  /\ processes' = IF killed THEN [processes EXCEPT ![proc] = "killed"]
                              ELSE processes
              /\ socketDir' = socketDir \ removed
              /\ teardowns' = Append(teardowns,
                     [by |-> sessions[s].vm_id,
                      killed |-> IF killed THEN proc ELSE NoProcess,
                      removed |-> removed])
    /\ sessions' = [sessions EXCEPT ![s] = NoSession]
    /\ UNCHANGED uuids
    /\ CcFrame

\* FirecrackerExecutor.cleanup, called by cleanup_all from the shutdown
\* event after the requests in flight were answered: `pkill -f firecracker`
\* and the removal of every *.sock of the directory: lines 545-563.
CcCleanup ==
    /\ \A s \in Procs : ~InFlight(s)
    /\ processes' = [v \in DOMAIN processes |->
                        IF processes[v] = "running" THEN "killed" ELSE processes[v]]
    /\ socketDir' = {f \in socketDir : f.ext # "sock"}
    /\ UNCHANGED <<sessions, uuids, teardowns>>
    /\ CcFrame

\* --------------------------------------------- the entry points (main.py)

\* What init_storage_manager left at startup: nothing when it raised, a
\* manager without provider when storage is disabled, a manager over R2.
StorageManagers == {"None", "disabled", "r2"}

NoHealthResponse ==
    [kind |-> "none", status |-> "none",
     executor |-> [provider |-> <<>>, name |-> <<>>, healthy |-> FALSE,
                   fallbacks |-> <<>>, available_providers |-> <<>>,
                   active_providers |-> <<>>],
     storage |-> [enabled |-> FALSE, healthy |-> FALSE]]

\* The keys of ExecutorFactory._instances.
CachedProviders == {instances[i].provider : i \in 1..Len(instances)}

\* The mutant of HealthResponse without the try around get_healthy_executor.
HealthResponseUncaught(r, storage_healthy) ==
    [kind |-> IF r.kind = "instance" THEN "response" ELSE "ExecutionError",
     status |-> IF r.kind = "instance" THEN "healthy" ELSE "none",
     executor |-> [provider |-> primary,
                   name |-> IF r.kind = "instance" THEN r.inst.provider
                            ELSE <<"unknown">>,
                   healthy |-> r.kind = "instance",
                   fallbacks |-> fallbackCfg,
                   available_providers |-> SortedNames(DOMAIN registry),
                   active_providers |-> SortedNames(CachedProviders)],
     storage |-> [enabled |-> storage_manager = "r2",
                  healthy |-> storage_healthy]]

\* The dict health_check returns, given what get_healthy_executor ended with
\* (an instance or an exception) and what the storage manager's health_check
\* answered: lines 172-203.
HealthResponse(r, storage_healthy) ==
    [kind |-> "response",
     status |-> IF r.kind = "instance" THEN "healthy" ELSE "degraded",
     executor |-> [provider |-> primary,
                   name |-> IF r.kind = "instance" THEN r.inst.provider
                            ELSE <<"unknown">>,
                   healthy |-> r.kind = "instance",
                   fallbacks |-> fallbackCfg,
                   available_providers |-> SortedNames(DOMAIN registry),
                   active_providers |-> SortedNames(CachedProviders)],
     storage |-> [enabled |-> storage_manager = "r2",
                  healthy |-> storage_healthy]]

\* storage_manager.health_check() if storage_manager else True; the R2
\* provider answers False when head_bucket raises.
StorageHealthOutcomes ==
    IF storage_manager = "r2" THEN BOOLEAN ELSE {TRUE}

ApiFrame == UNCHANGED <<dkVars, fcVars, valVars, guestVars>>

\* GET /health arrives.
HealthCheckCall ==
    /\ hPc \in {"idle", "responded"}
    /\ aPc \in {"idle", "responded"}
    /\ pc[1] = "idle"
    /\ hPc' = "get_healthy"
    /\ hResponse' = NoHealthResponse
    /\ UNCHANGED <<storage_manager, aPc, aRequest, validateArg, executeArg,
                   aResponse>>
    /\ UNCHANGED svcVars
    /\ ApiFrame

\* await get_healthy_executor(), inside the try.
HealthGetHealthy ==
    /\ hPc = "get_healthy"
    /\ GetHealthyStep(1)

\* From the except clause or the end of the try to the return.
HealthRespond ==
    /\ hPc = "get_healthy"
    /\ pc[1] = "done"
    /\ \E storage_healthy \in StorageHealthOutcomes :
          hResponse' = HealthResponse(result[1], storage_healthy)
    /\ hPc' = "responded"
    /\ UNCHANGED <<storage_manager, aPc, aRequest, validateArg, executeArg,
                   aResponse>>
    /\ UNCHANGED svcVars
    /\ ApiFrame

\* The coroutine of the handler ends.
HealthEnd ==
    /\ hPc = "responded"
    /\ Return(1)

\* ExecuteRequest: max_length of code, ge and le of timeout.
REQUEST_MAX_LENGTH == 50000
MIN_TIMEOUT == 1
MAX_TIMEOUT == 30

\* A request body: the code, whether code.strip() is empty, the timeout.
Request(c, blank, timeout) == [code |-> c, blank |-> blank, timeout |-> timeout]

NoRequest == Request(NoCode, TRUE, 0)

\* The mutant of ExecuteRequestValid whose code_not_empty tests `v` instead
\* of `v.strip()`.
ExecuteRequestValidNoStrip(req) ==
    /\ req.code.length <= REQUEST_MAX_LENGTH
    /\ req.timeout >= MIN_TIMEOUT
    /\ req.timeout <= MAX_TIMEOUT
    /\ req.code.length # 0

\* Whether pydantic accepts the body as an ExecuteRequest: lines 10-28.
ExecuteRequestValid(req) ==
    /\ req.code.length <= REQUEST_MAX_LENGTH
    /\ req.timeout >= MIN_TIMEOUT
    /\ req.timeout <= MAX_TIMEOUT
    /\ ~req.blank

\* The bodies posted: codes of no, one, the maximum and one more than the
\* maximum of characters, blank or not, and timeouts around both ends of
\* the range.
RequestInputs ==
    { Request(Source(n, "ok", w), blank, t) :
        n \in {0, 1, REQUEST_MAX_LENGTH, REQUEST_MAX_LENGTH + 1},
        w \in {<<>>, <<PlainNode("Module"), PlainNode("Expr")>>,
               <<PlainNode("Module"), ImportNode(<<<<"os">>>>)>>},
        blank \in BOOLEAN,
        t \in {MIN_TIMEOUT - 1, MIN_TIMEOUT, 10, MAX_TIMEOUT, MAX_TIMEOUT + 1} }
    \ { r \in [code : {Source(n, "ok", w) :
                          n \in {0, 1, REQUEST_MAX_LENGTH, REQUEST_MAX_LENGTH + 1},
                          w \in {<<>>, <<PlainNode("Module"), PlainNode("Expr")>>,
                                 <<PlainNode("Module"), ImportNode(<<<<"os">>>>)>>}},
               blank : BOOLEAN,
               timeout : {MIN_TIMEOUT - 1, MIN_TIMEOUT, 10, MAX_TIMEOUT,
                          MAX_TIMEOUT + 1}] :
          \/ r.blank /\ r.code.walk # <<>>
          \/ ~r.blank /\ (r.code.length = 0 \/ r.code.walk = <<>>) }

\* The arguments of a call, when it was made.
NoCall == [called |-> FALSE, code |-> NoCode, blank |-> TRUE, timeout |-> 0]

CalledWith(req) ==
    [called |-> TRUE, code |-> req.code, blank |-> req.blank,
     timeout |-> req.timeout]

\* POST /execute arrives: FastAPI builds the ExecuteRequest and answers 422
\* when that fails, otherwise execute_code is entered (lines 95-131).
PostExecute ==
    /\ aPc \in {"idle", "responded"}
    /\ hPc \in {"idle", "responded"}
    /\ \E req \in RequestInputs :
          /\ aRequest' = req
          /\ IF ExecuteRequestValid(req)
             THEN aPc' = "service" /\ aResponse' = 0
             ELSE aPc' = "responded" /\ aResponse' = 422
    /\ validateArg' = NoCall
    /\ executeArg' = NoCall
    /\ UNCHANGED <<storage_manager, hPc, hResponse>>
    /\ UNCHANGED svcVars
    /\ ApiFrame

\* service.execute_code(code=request.code, timeout=request.timeout) up to
\* the validation: service.py 59-69; ValidationError is answered with 400.
ServiceValidate ==
    /\ aPc = "service"
    /\ validateArg' = CalledWith(aRequest)
    /\ IF ~Validate(aRequest.code).ok
       THEN aPc' = "responded" /\ aResponse' = 400
       ELSE aPc' = "executor" /\ UNCHANGED aResponse
    /\ UNCHANGED <<storage_manager, hPc, hResponse, aRequest, executeArg>>
    /\ UNCHANGED svcVars
    /\ ApiFrame

\* self.executor.execute(code, timeout) and the response: service.py 72,
\* main.py 128-147. The executor property raises when DockerExecutor()
\* does; ExecutionError is answered with 500.
ServiceExecute ==
    /\ aPc = "executor"
    /\ \/ executeArg' = CalledWith(aRequest) /\ aResponse' \in {200, 500}
       \/ executeArg' = NoCall /\ aResponse' = 500
    /\ aPc' = "responded"
    /\ UNCHANGED <<storage_manager, hPc, hResponse, aRequest, validateArg>>
    /\ UNCHANGED svcVars
    /\ ApiFrame

\* ------------------------------------------------------------ Spec

\* The registries the imports of the executor modules leave behind.
Registries ==
    { [n \in S |-> ExecutorClass(n)] : S \in {{Docker}, {Docker, Firecracker}} }

\* Everything but the configuration and the coroutines that may run.
InitFresh ==
    /\ instances = <<>>
    /\ made = [n \in DOMAIN registry |-> 0]
    /\ dockerSingleton = None
    /\ svcExecutor = None
    /\ pc = [p \in Procs |-> "idle"]
    /\ op = [p \in Procs |-> "none"]
    /\ code = [p \in Procs |-> NoCode]
    /\ held = [p \in Procs |-> None]
    /\ idx = [p \in Procs |-> 0]
    /\ attempts = [p \in Procs |-> <<>>]
    /\ built = [p \in Procs |-> 0]
    /\ called = [p \in Procs |-> FALSE]
    /\ result = [p \in Procs |-> NoResult]
    /\ cleanups = 0
    /\ lastCleanup = NoCleanup

\* No execute of the docker backend has been called.
DockerIdle ==
    /\ dkPc = "idle"
    /\ container = NoContainer
    /\ waitResult = NoWait
    /\ dkLogs = NoLogs
    /\ dkExc = NoExc
    /\ dkReturn = NoReturn
    /\ dkInput = NoInput
    /\ containers = <<>>
    /\ removals = <<>>
    /\ member_idx = 0
    /\ file_count = 0
    /\ total_size = 0
    /\ file_urls = <<>>
    /\ saved = <<>>
    /\ archive_reads = 0

\* No execute of the firecracker backend has been called.
FcIdle ==
    /\ fcPc = "idle"
    /\ vm_id = 0
    /\ firecracker_process = NoProcess
    /\ fcResult = NoVmResult
    /\ fcExc = NoExc
    /\ fcReturn = NoReturn
    /\ fcInput = NoFcInput
    /\ processes = [v \in 1..MaxRuns |-> "none"]
    /\ socketDir = {}
    /\ kills = <<>>
    /\ fcSteps = <<>>
    /\ apiCalls = <<>>
    /\ rpcLog = <<>>
    /\ teardown = <<>>
    /\ polls = 0
    /\ rpcEvent = "none"
    /\ guestRun = NoGuestRun

\* The guest agent waits for a connection.
GuestIdle ==
    /\ agPc = "accept"
    /\ agLog = <<>>
    /\ xPc = "idle"
    /\ xEnd = "none"
    /\ xListing = <<>>
    /\ xIdx = 0
    /\ xStream = <<>>
    /\ xReads = <<>>
    /\ xHanded = <<>>
    /\ xUrls = <<>>
    /\ sessions = [s \in Procs |-> NoSession]
    /\ uuids = 0
    /\ teardowns = <<>>

\* Nothing has been submitted to the validator.
ValIdle ==
    /\ vPc = "idle"
    /\ vCode = NoCode
    /\ vResult = NoValidation
    /\ vOutcome = NoResult

\* No request has reached the entry points; storage is disabled, the
\* default of settings.STORAGE_ENABLED.
ApiIdle ==
    /\ storage_manager = "disabled"
    /\ hPc = "idle"
    /\ hResponse = NoHealthResponse
    /\ aPc = "idle"
    /\ aRequest = NoRequest
    /\ validateArg = NoCall
    /\ executeArg = NoCall
    /\ aResponse = 0

\* The factory and the service before any request.
SvcIdle ==
    /\ registry = [n \in {Docker, Firecracker} |-> ExecutorClass(n)]
    /\ primary = Docker
    /\ fallbackCfg = <<"docker">>
    /\ active = {}
    /\ InitFresh

\* The default of settings.EXECUTOR_FALLBACK_PROVIDERS
DefaultFallbackProviders == <<"docker">>

\* The service under concurrent requests, with both executor modules
\* imported and the default fallback list.
InitSvc ==
    /\ registry = [n \in {Docker, Firecracker} |-> ExecutorClass(n)]
    /\ primary \in {Docker, Firecracker}
    /\ fallbackCfg = DefaultFallbackProviders
    /\ active = Procs
    /\ InitFresh
    /\ DockerIdle
    /\ FcIdle /\ GuestIdle
    /\ ValIdle
    /\ ApiIdle

\* One caller of the factory, under every configuration string up to MaxCfgLen.
InitFactory ==
    /\ registry \in Registries
    /\ primary \in Providers
    /\ fallbackCfg \in SeqsUpTo(CfgTokens, MaxCfgLen)
    /\ active = {1}
    /\ InitFresh
    /\ DockerIdle
    /\ FcIdle /\ GuestIdle
    /\ ValIdle
    /\ ApiIdle

NextSvc ==
    \/ \E p \in Procs : GetHealthyStep(p)
    \/ \E p \in Procs : CreateCall(p)
    \/ \E p \in Procs : ExecStart(p)
    \/ \E p \in Procs : ExecReturn(p)
    \/ \E p \in Procs : Return(p)
    \/ Shutdown

NextFactory ==
    \/ GetHealthyStep(1)
    \/ CreateCall(1)
    \/ Return(1)
    \/ CleanupAllCall

vars == <<svcVars, dkVars, fcVars, valVars, apiVars, guestVars>>

Init == InitSvc

Next == NextSvc

Spec == Init /\ [][Next]_vars

SpecFactory == InitFactory /\ [][NextFactory]_vars

\* DockerExecutor.execute, called MaxRuns times one after the other.
InitDocker == SvcIdle /\ DockerIdle /\ FcIdle /\ GuestIdle /\ ValIdle /\ ApiIdle

NextDocker ==
    \/ DockerExecute
    \/ ContainersRun
    \/ ContainerWait
    \/ ContainerLogs
    \/ ExtractBegin
    \/ ExtractMember
    \/ ExtractAndReturn
    \/ DockerExcept
    \/ DockerFinally

SpecDocker == InitDocker /\ [][NextDocker]_vars

\* The exceptions the except clauses of DockerExecutor.execute are given:
\* a ContainerError with its exit status, and the errors of the client and
\* the daemon, with every text of up to MaxMsgLen fragments.
SampleExceptions ==
    { [Exc(cls, FALSE, st) EXCEPT !.text = t] :
        cls \in {"ReadTimeout", "APIError"}, st \in {0},
        t \in SeqsUpTo(Fragments, MaxMsgLen) }
    \cup { [Exc("ContainerError", FALSE, st) EXCEPT !.text = t] :
              st \in {1, 137}, t \in {<<"x">>, <<"time", "out">>} }

\* The except clauses of DockerExecutor.execute as a function of the
\* exception: execute is in its try block, with or without a container,
\* when the exception is raised.
InitDockerExcept ==
    /\ SvcIdle /\ FcIdle /\ GuestIdle /\ ValIdle /\ ApiIdle
    /\ dkPc = "except"
    /\ dkExc \in SampleExceptions
    /\ container = NoContainer
    /\ waitResult = NoWait
    /\ dkLogs = NoLogs
    /\ dkReturn = NoReturn
    /\ dkInput = NoInput
    /\ containers = <<>>
    /\ removals = <<>>
    /\ member_idx = 0
    /\ file_count = 0
    /\ total_size = 0
    /\ file_urls = <<>>
    /\ saved = <<>>
    /\ archive_reads = 0

NextDockerExcept ==
    \/ DockerExcept
    \/ DockerFinally

SpecDockerExcept == InitDockerExcept /\ [][NextDockerExcept]_vars

\* The guest agent and the connections of a peer that sends any request.
InitAgent == SvcIdle /\ DockerIdle /\ FcIdle /\ GuestIdle /\ ValIdle /\ ApiIdle

NextAgent ==
    \/ AgentAccept
    \/ AgentHandleRequest
    \/ AgentClose

SpecAgent == InitAgent /\ [][NextAgent]_vars

\* One run of _extract_files against the guest agent, for every listing of
\* up to MaxListed files.
InitExtract == SvcIdle /\ DockerIdle /\ FcIdle /\ GuestIdle /\ ValIdle /\ ApiIdle

NextExtract ==
    \/ XStart
    \/ XGetFile
    \/ XReturn

SpecExtract == InitExtract /\ [][NextExtract]_vars

\* NumProcs requests in execute of the microVM backend at a time, MaxRuns
\* sessions in all.
InitSessions == SvcIdle /\ DockerIdle /\ FcIdle /\ GuestIdle /\ ValIdle /\ ApiIdle

NextSessions ==
    \/ \E s \in Procs : CcExecute(s)
    \/ \E s \in Procs : CcStart(s)
    \/ \E s \in Procs : CcConfigure(s)
    \/ \E s \in Procs : CcRun(s)
    \/ \E s \in Procs : CcFinally(s)
    \/ CcCleanup

SpecSessions == InitSessions /\ [][NextSessions]_vars

\* FirecrackerExecutor.execute, called MaxRuns times one after the other.
InitFc == SvcIdle /\ DockerIdle /\ FcIdle /\ GuestIdle /\ ValIdle /\ ApiIdle

NextFc ==
    \/ FcExecute
    \/ StartFirecracker
    \/ WaitForSocket
    \/ ConfigureVm
    \/ BootVm
    \/ WaitForGuestAgent
    \/ ExecuteCodeInVm
    \/ FcExtractAndReturn
    \/ FcExcept
    \/ FcFinally

SpecFc == InitFc /\ [][NextFc]_vars

\* A session once called is run to its end by the event loop: each step of
\* execute is a coroutine or a blocking call that returns or raises, so the
\* step that is due is eventually taken. Nothing obliges a caller to call
\* execute again.
FcFairness ==
    /\ WF_vars(StartFirecracker)
    /\ WF_vars(WaitForSocket)
    /\ WF_vars(ConfigureVm)
    /\ WF_vars(BootVm)
    /\ WF_vars(WaitForGuestAgent)
    /\ WF_vars(ExecuteCodeInVm)
    /\ WF_vars(FcExtractAndReturn)
    /\ WF_vars(FcExcept)
    /\ WF_vars(FcFinally)

SpecFcLive == InitFc /\ [][NextFc]_vars /\ FcFairness

\* One service process with one backend: the executor of the provider it is
\* configured with serves every execute, the other backend is never called.
InitBackends == SvcIdle /\ DockerIdle /\ FcIdle /\ GuestIdle /\ ValIdle /\ ApiIdle

NextBackends ==
    \/ fcPc = "idle" /\ NextDocker
    \/ dkPc = "idle" /\ NextFc

SpecBackends == InitBackends /\ [][NextBackends]_vars

\* CodeValidator.validate and the decision of execute_code, on every source
\* of ValidatorInputs.
InitValidator ==
    /\ SvcIdle /\ DockerIdle /\ FcIdle /\ GuestIdle /\ ApiIdle
    /\ vPc = "idle"
    /\ vCode \in ValidatorInputs
    /\ vResult = NoValidation
    /\ vOutcome = NoResult

NextValidator ==
    \/ ValidateCall
    \/ ServiceDecide

SpecValidator == InitValidator /\ [][NextValidator]_vars

\* The configurations the entry points are run under.
SampleFallbackConfigs ==
    { DefaultFallbackProviders, <<>>, <<"gvisor">>,
      <<"firecracker", ",", "docker">> }

\* GET /health and POST /execute, one request at a time, under every
\* registry, primary provider and storage manager.
InitApi ==
    /\ registry \in Registries
    /\ primary \in Providers
    /\ fallbackCfg \in SampleFallbackConfigs
    /\ active = {1}
    /\ InitFresh
    /\ DockerIdle /\ FcIdle /\ GuestIdle /\ ValIdle
    /\ storage_manager \in StorageManagers
    /\ hPc = "idle"
    /\ hResponse = NoHealthResponse
    /\ aPc = "idle"
    /\ aRequest = NoRequest
    /\ validateArg = NoCall
    /\ executeArg = NoCall
    /\ aResponse = 0

NextApi ==
    \/ HealthCheckCall
    \/ HealthGetHealthy
    \/ HealthRespond
    \/ HealthEnd
    \/ PostExecute
    \/ ServiceValidate
    \/ ServiceExecute

SpecApi == InitApi /\ [][NextApi]_vars

\* ================================================================ claims

IsPrefix(s, t) == Len(s) <= Len(t) /\ SubSeq(t, 1, Len(s)) = s

\* A source one of the validator's four checks rejects.
FailsValidation(c) ==
    \/ c.length > MAX_CODE_LENGTH
    \/ c.parses # "ok"
    \/ CheckImports(c.walk) # <<>>
    \/ CalculateComplexity(c.walk) > MAX_COMPLEXITY

(* C1: a request whose code fails validation (length, syntax, forbidden    *)
(* import or complexity) ends with a validation error, and for it no       *)
(* backend is constructed, selected or asked to execute; a backend's       *)
(* execute is only ever called with code that passed validation.           *)
C1_ValidationGatesBackend ==
    \A p \in Procs :
        /\ called[p] => ~FailsValidation(code[p])
        /\ (op[p] = "execute" /\ FailsValidation(code[p])) =>
              /\ pc[p] = "done"
              /\ result[p].kind = "ValidationError"
              /\ result[p].errors # <<>>
              /\ ~called[p]
              /\ built[p] = 0
              /\ held[p] = None

\* C1's case: a request with a forbidden import was rejected while no
\* executor exists, and another request's valid code reached a backend.
C1_Witness ==
    \E p, q \in Procs :
        /\ op[p] = "execute" /\ pc[p] = "done"
        /\ CheckImports(code[p].walk) # <<>>
        /\ result[p].kind = "ValidationError"
        /\ op[q] = "execute" /\ called[q]

\* The order get_healthy is said to try the providers in.
ClaimedOrder ==
    <<primary>> \o SelectSeq(FallbackProviders,
                             LAMBDA n : n # primary /\ n \in DOMAIN registry)

Succeeded(a) == a.constructed /\ a.healthy

GotInstance(p) ==
    op[p] = "get_healthy" /\ pc[p] = "done" /\ result[p].kind = "instance"

(* C5: get_healthy returns the first provider, in the order primary then   *)
(* the configured fallbacks without the primary and the unregistered       *)
(* names, that constructs and whose health check returns true; and an      *)
(* instance whose health check returned false in this call is never        *)
(* returned.                                                               *)
C5_FirstHealthyInOrder ==
    \A p \in Procs : GotInstance(p) =>
        LET a == attempts[p]
            k == Len(a)
        IN  /\ k >= 1 /\ k <= Len(ClaimedOrder)
            /\ \A j \in 1..k : a[j].provider = ClaimedOrder[j]
            /\ Succeeded(a[k]) /\ a[k].inst = result[p].inst
            /\ \A j \in 1..(k - 1) : ~Succeeded(a[j])
            /\ \A j \in 1..k :
                  (a[j].constructed /\ ~a[j].healthy) => a[j].inst # result[p].inst

(* C6: get_healthy never modifies the registry and never removes or        *)
(* replaces an entry of the instance cache, it only appends entries; when  *)
(* the primary constructed, failed its health check and a fallback is      *)
(* returned, the primary's instance is still cached.                       *)
C6_GetHealthyOnlyAddsToCache ==
    /\ [][(\E p \in Procs : GetHealthyStep(p)) =>
             (registry' = registry /\ IsPrefix(instances, instances'))]_vars
    /\ [](\A p \in Procs :
            (GotInstance(p) /\ attempts[p][1].constructed
                /\ ~attempts[p][1].healthy
                /\ attempts[p][1].inst.epoch = cleanups) =>
            (HasKey(instances, primary)
                /\ Lookup(instances, primary) = attempts[p][1].inst))

\* C6's case: the primary was constructed and found unhealthy, a fallback
\* was returned, and the primary's instance is in the cache beside it.
C6_Witness ==
    \E p \in Procs :
        /\ GotInstance(p)
        /\ attempts[p][1].constructed /\ ~attempts[p][1].healthy
        /\ result[p].inst.provider # primary
        /\ HasKey(instances, primary)
        /\ Lookup(instances, primary) = attempts[p][1].inst
        /\ Len(instances) = 2

(* C7: get_healthy ends with an execution error, and with no instance,     *)
(* exactly when no provider it tried both constructed and reported         *)
(* healthy; the error names every provider attempted in the call and       *)
(* every registered provider.                                              *)
C7_ExhaustedErrorListsProviders ==
    \A p \in Procs : (op[p] = "get_healthy" /\ pc[p] = "done") =>
        LET a == attempts[p]
            failed == \A j \in 1..Len(a) : ~Succeeded(a[j])
        IN  /\ (result[p].kind = "ExecutionError") <=> failed
            /\ (result[p].kind = "instance") <=> ~failed
            /\ failed =>
                  /\ result[p].inst = None
                  /\ Len(a) = Len(ClaimedOrder)
                  /\ \A j \in 1..Len(a) : a[j].provider \in Range(result[p].tried)
                  /\ Range(result[p].registered) = DOMAIN registry
                  /\ Len(result[p].registered) = Cardinality(DOMAIN registry)

\* C7's case: the primary and a fallback were both tried and failed, one at
\* construction and one at its health check, and the call raised.
C7_Witness ==
    \E p \in Procs :
        /\ op[p] = "get_healthy" /\ pc[p] = "done"
        /\ result[p].kind = "ExecutionError"
        /\ Len(attempts[p]) >= 2
        /\ \E j \in 1..Len(attempts[p]) : attempts[p][j].constructed
        /\ \E j \in 1..Len(attempts[p]) : ~attempts[p][j].constructed

\* The executor objects of provider n that something still refers to.
LiveInstances(n) ==
    ({instances[i].id : i \in {j \in 1..Len(instances) : instances[j].provider = n}}
        \cup (IF n = Docker THEN {dockerSingleton, svcExecutor} ELSE {}))
    \ {None}

(* C8: at most one live backend instance per provider name: the instance   *)
(* the execution service uses is the one the factory caches for the name.  *)
C8_OneLiveInstancePerProvider ==
    \A n \in Providers : Cardinality(LiveInstances(n)) <= 1

FactoryCaller(p) == op[p] \in {"get_healthy", "create"} /\ held[p] # None

(* C9: under concurrent create / get_healthy calls the factory constructs  *)
(* one instance per provider name and every caller gets that instance: the *)
(* instance a caller holds is the cached one, and two callers holding an   *)
(* instance of the same provider hold the same one.                        *)
C9_OneConstructionUnderConcurrency ==
    /\ \A n \in DOMAIN made : made[n] <= 1
    /\ \A p \in Procs : (FactoryCaller(p) /\ held[p].epoch = cleanups) =>
          (HasKey(instances, held[p].provider)
              /\ Lookup(instances, held[p].provider) = held[p])
    /\ \A p, q \in Procs :
          (FactoryCaller(p) /\ FactoryCaller(q)
              /\ held[p].provider = held[q].provider
              /\ held[p].epoch = held[q].epoch) => held[p] = held[q]

\* C9's case: two get_healthy calls are in flight, both waiting for the
\* health check of the same instance, which one of them constructed.
C9_Witness ==
    \E p, q \in Procs :
        /\ p # q
        /\ pc[p] = "gh_primary_hc" /\ pc[q] = "gh_primary_hc"
        /\ held[p] = held[q] /\ held[p] # None
        /\ built[p] = 1 /\ built[q] = 0

(* C10: cleanup_all invokes cleanup exactly once on every instance that    *)
(* was cached when it was called, whichever of them raise, leaves the      *)
(* cache empty and raises nothing; with an empty cache it invokes nothing. *)
C10_CleanupAllBestEffort ==
    lastCleanup.called =>
        /\ lastCleanup.invoked = Ids(lastCleanup.before)
        /\ \A i, j \in 1..Len(lastCleanup.invoked) :
              lastCleanup.invoked[i] = lastCleanup.invoked[j] => i = j
        /\ lastCleanup.after = <<>>
        /\ instances = <<>>
        /\ ~lastCleanup.propagated
        /\ (lastCleanup.before = <<>> => lastCleanup.invoked = <<>>)

\* C10's case: two instances were cached, the cleanup of the first raised,
\* and this was a second call of cleanup_all.
C10_Witness ==
    /\ lastCleanup.called
    /\ cleanups = 2
    /\ Len(lastCleanup.before) = 2
    /\ lastCleanup.before[1].id \in lastCleanup.raised
    /\ lastCleanup.invoked = Ids(lastCleanup.before)

(* C2: for every run of the docker backend that finishes within the        *)
(* timeout, the result has success=true exactly when the program's exit    *)
(* status is 0, and a non-zero exit gives success=false with that exit     *)
(* code as a normal result.                                                *)
C2_SuccessIffExitZero ==
    (dkPc = "returned" /\ waitResult.done /\ dkExc = NoExc) =>
        /\ dkReturn.success <=> (waitResult.StatusCode = 0)
        /\ dkReturn.exit_code = waitResult.StatusCode
        /\ dkReturn.error = "None"

(* C3: after the firecracker backend's execute returned, on every path,    *)
(* the session's process is not running and neither <vm_id>.sock nor       *)
(* <vm_id>.vsock is left in the socket directory.                          *)
C3_NoSessionArtifactsLeft ==
    fcPc = "returned" =>
        /\ processes[vm_id] # "running"
        /\ SockFile(vm_id) \notin socketDir
        /\ VsockFile(vm_id) \notin socketDir

RemovalsOf(c) == {i \in 1..Len(removals) : removals[i].id = c}

(* C4: whenever execute of the docker backend created a container, one     *)
(* forced removal of it was attempted before execute returned, on every    *)
(* path; execute returned a result even when the removal raised.           *)
C4_RemovalAlwaysAttempted ==
    dkPc \in {"idle", "returned"} =>
        /\ \A c \in 1..Len(containers) :
              /\ Cardinality(RemovalsOf(c)) = 1
              /\ containers[c] # "removed" =>
                    \A i \in RemovalsOf(c) : removals[i].raised
        /\ dkPc = "returned" =>
              /\ dkReturn.returned
              /\ container # NoContainer => RemovalsOf(container) # {}

\* C4's case: a first execution ended normally and its removal raised, a
\* second one timed out in wait and its container was removed.
C4_Witness ==
    /\ dkPc = "returned"
    /\ Len(containers) = 2
    /\ Len(removals) = 2
    /\ removals[1].raised /\ containers[1] = "exited"
    /\ ~removals[2].raised /\ containers[2] = "removed"
    /\ dkExc.cls = "ReadTimeout"
    /\ dkReturn.error = "Execution timeout"

(* C11: every request that passes validation is executed by a backend      *)
(* selected through the factory: the executor whose execute is called is   *)
(* the instance the factory caches for its provider.                       *)
C11_ExecutesOnFactoryBackend ==
    \A p \in Procs :
        (op[p] = "execute" /\ called[p]) =>
            /\ held[p].origin = "factory"
            /\ HasKey(instances, held[p].provider)
            /\ Lookup(instances, held[p].provider) = held[p]

\* ------------------------------------------------------ validator claims

Validated == vPc \in {"validated", "done"}

\* A source that gets past the length check and the parse.
Analysed == Validated /\ vCode.length <= MAX_CODE_LENGTH /\ vCode.parses = "ok"

EntriesWith(text) == SelectSeq(vResult.errors, LAMBDA e : e.text = text)

RECURSIVE ImportedModules(_)
\* Every module a source imports, in the order of the tree: the names of
\* 'import a, b' and the module of 'from m import x'.
ImportedModules(walk) ==
    IF walk = <<>> THEN <<>>
    ELSE (IF Head(walk).type = "Import" THEN Head(walk).names
          ELSE IF Head(walk).type = "ImportFrom" /\ Head(walk).module # <<>>
               THEN <<Head(walk).module>>
               ELSE <<>>) \o ImportedModules(Tail(walk))

ForbiddenRefs(walk) ==
    SelectSeq(ImportedModules(walk), LAMBDA m : m[1] \in FORBIDDEN_IMPORTS)

C13_LengthAndSyntaxShortCircuit ==
    Validated =>
        /\ vCode.length > MAX_CODE_LENGTH =>
              /\ ~vResult.ok
              /\ Len(vResult.errors) = 1
              /\ vResult.errors[1].text = "Code exceeds maximum length"
        /\ (vCode.length <= MAX_CODE_LENGTH /\ vCode.parses # "ok") =>
              /\ ~vResult.ok
              /\ Len(vResult.errors) = 1
              /\ vResult.errors[1].text \in {"Syntax error", "Failed to parse code"}
              /\ vCode.parses = "SyntaxError" =>
                    vResult.errors[1].text = "Syntax error"
        /\ vCode.length <= MAX_CODE_LENGTH =>
              EntriesWith("Code exceeds maximum length") = <<>>

\* C13's case: a source one character over the limit that imports a
\* forbidden module and loops forever gets the length error alone.
C13_Witness ==
    /\ vPc = "done"
    /\ vCode.length = MAX_CODE_LENGTH + 1
    /\ ForbiddenRefs(vCode.walk) # <<>>
    /\ \E i \in 1..Len(vCode.walk) : vCode.walk[i] = WhileNode(TRUE)
    /\ Len(vResult.errors) = 1
    /\ vOutcome.kind = "ValidationError"

HasLoopWarning ==
    \E i \in 1..Len(vResult.errors) :
        /\ vResult.errors[i].prefix = "Warning: "
        /\ vResult.errors[i].text = "Potential infinite loop detected (while True)"

HasBuiltinWarning(id) ==
    \E i \in 1..Len(vResult.errors) :
        /\ vResult.errors[i].prefix = "Warning: "
        /\ vResult.errors[i].text = "Dangerous builtin usage: "
        /\ vResult.errors[i].arg = <<id>>

(* C14: for a parseable source within the length limit that has a while    *)
(* True loop or a direct call of eval, exec, compile or __import__, the    *)
(* returned list has the matching warning entry whatever the outcome.      *)
C14_WarningsWhateverTheOutcome ==
    Analysed =>
        \A i \in 1..Len(vCode.walk) :
            LET node == vCode.walk[i]
            IN  /\ (node.type = "While" /\ node.flag) => HasLoopWarning
                /\ (node.type = "Call"
                        /\ node.id \in {"eval", "exec", "compile", "__import__"})
                      => HasBuiltinWarning(node.id)

(* C15: a while True loop always gives an infinite-loop warning entry;     *)
(* when every returned entry is a warning, ok is true; execute_code fails  *)
(* exactly when ok is false and its error carries no warning entry.        *)
C15_WarningsNeverFail ==
    /\ Analysed =>
          ((\E i \in 1..Len(vCode.walk) : vCode.walk[i] = WhileNode(TRUE))
              => HasLoopWarning)
    /\ Validated =>
          ((\A i \in 1..Len(vResult.errors) : StartsWithWarning(vResult.errors[i]))
              => vResult.ok)
    /\ vPc = "done" =>
          /\ (vOutcome.kind = "ValidationError") <=> ~vResult.ok
          /\ \A i \in 1..Len(vOutcome.errors) :
                ~StartsWithWarning(vOutcome.errors[i])

\* A node's decision points: one for a conditional, a loop or an exception
\* handler, operands - 1 for a boolean chain, the generators of a
\* comprehension.
Weight(node) ==
    IF node.type \in {"If", "While", "For", "ExceptHandler"} THEN 1
    ELSE IF node.type = "BoolOp" THEN node.n - 1
    ELSE IF node.type \in {"ListComp", "DictComp", "SetComp"} THEN node.n
    ELSE 0

CountedComplexity(walk) ==
    1 + Cardinality({ik \in (1..Len(walk)) \X (1..MAX_COMPLEXITY) :
                        ik[2] <= Weight(walk[ik[1]])})

(* C16: for a source that passes the length, syntax and import checks,     *)
(* with N = 1 + its decision points, validate returns ok=false with one    *)
(* complexity error reporting N exactly when N > MAX_COMPLEXITY, and       *)
(* ok=true with no complexity error otherwise.                             *)
C16_ComplexityCeiling ==
    (Analysed /\ ForbiddenRefs(vCode.walk) = <<>>) =>
        LET N == CountedComplexity(vCode.walk)
            errs == EntriesWith("Code complexity exceeds maximum")
        IN  /\ vResult.ok <=> (N <= MAX_COMPLEXITY)
            /\ N > MAX_COMPLEXITY => (Len(errs) = 1 /\ errs[1].arg = <<N>>)
            /\ N <= MAX_COMPLEXITY => errs = <<>>

\* C16's case: a boolean chain of MAX_COMPLEXITY operands brings N to the
\* ceiling, one more conditional takes it over, and the error reports N.
C16_Witness ==
    /\ vPc = "done"
    /\ vCode.length <= MAX_CODE_LENGTH /\ vCode.parses = "ok"
    /\ vCode.walk = <<PlainNode("If"), BoolOpNode(MAX_COMPLEXITY), CallNode("print")>>
    /\ ~vResult.ok
    /\ Len(vResult.errors) = 1
    /\ vResult.errors[1].arg = <<MAX_COMPLEXITY + 1>>

\* What the claim says the returned stream is for the stream the program
\* wrote.
TruncatedAsClaimed(raw, out) ==
    /\ raw.len <= MAX_OUTPUT_SIZE => out = raw
    /\ raw.len > MAX_OUTPUT_SIZE =>
          /\ out.notice
          /\ out.len = MAX_OUTPUT_SIZE + TRUNCATION_NOTICE_LEN
    /\ out.len <= MAX_OUTPUT_SIZE + TRUNCATION_NOTICE_LEN

\* execute of the docker backend read the container's logs in this run.
LogsRead ==
    \/ dkPc \in {"extract", "extract_loop", "return"}
    \/ dkPc \in {"finally", "returned"} /\ dkExc = NoExc

(* C17: in the docker backend an output of at most MAX_OUTPUT_SIZE is      *)
(* returned unchanged and a longer one is cut to MAX_OUTPUT_SIZE followed  *)
(* by the truncation notice, so stdout and stderr are each at most         *)
(* MAX_OUTPUT_SIZE plus the notice's length, each decided by its own       *)
(* length only; the normal return carries them as they are.                *)
C17_OutputTruncation ==
    LogsRead =>
        /\ TruncatedAsClaimed(dkInput.program.stdout, dkLogs.stdout)
        /\ TruncatedAsClaimed(dkInput.program.stderr, dkLogs.stderr)
        /\ dkPc \in {"finally", "returned"} =>
              /\ dkReturn.stdout = dkLogs.stdout
              /\ dkReturn.stderr = dkLogs.stderr

\* C17's case: a run returned with a stdout of exactly MAX_OUTPUT_SIZE left
\* as it was and a longer stderr cut.
C17_Witness ==
    /\ dkPc = "returned"
    /\ dkExc = NoExc
    /\ dkInput.program.stdout.len = MAX_OUTPUT_SIZE
    /\ dkReturn.stdout = dkInput.program.stdout
    /\ dkInput.program.stderr.len > MAX_OUTPUT_SIZE
    /\ dkReturn.stderr.notice
    /\ dkReturn.stderr.len = MAX_OUTPUT_SIZE + TRUNCATION_NOTICE_LEN

RECURSIVE SumOfSizes(_)
SumOfSizes(members) ==
    IF members = <<>> THEN 0
    ELSE members[1].size + SumOfSizes(Tail(members))

\* The loop over the archive's members has ended in this run.
ExtractionEnded ==
    \/ dkPc = "return"
    \/ dkPc \in {"finally", "returned"} /\ dkExc = NoExc

\* A member that is a non-empty, non-hidden regular file within the per-file
\* limit and that storage saves.
GoodMember(m) ==
    /\ m.isfile
    /\ ~StartsWithDot(BaseName(m.name))
    /\ m.size \in 1..MAX_FILE_SIZE
    /\ m.save = "url"

\* The run's input is the one C18 is about.
MoreThanMaxGoodFiles ==
    /\ dkInput.storage = "enabled"
    /\ dkInput.archive.found
    /\ Len(dkInput.archive.members) > MAX_FILE_COUNT
    /\ \A i \in 1..Len(dkInput.archive.members) :
          GoodMember(dkInput.archive.members[i])
    /\ SumOfSizes(dkInput.archive.members) <= MAX_TOTAL_SIZE

(* C18: with storage enabled and every save succeeding, a run that leaves  *)
(* more than MAX_FILE_COUNT non-empty, non-hidden regular files within the *)
(* size limits returns the references of the first MAX_FILE_COUNT members  *)
(* of the archive, in order, and the rest of its result is that of the     *)
(* run: success, the exit status, the two streams, no error.               *)
C18_FileCountCap ==
    (ExtractionEnded /\ MoreThanMaxGoodFiles) =>
        /\ Len(file_urls) = MAX_FILE_COUNT
        /\ \A i \in 1..MAX_FILE_COUNT :
              file_urls[i] = BaseName(dkInput.archive.members[i].name)
        /\ dkPc \in {"finally", "returned"} =>
              dkReturn = SuccessResult(TruncateOutput(dkInput.program.stdout),
                                       TruncateOutput(dkInput.program.stderr),
                                       waitResult.StatusCode, file_urls)

\* C18's case: a run that left MAX_FILE_COUNT + 2 such files returned.
C18_Witness ==
    /\ dkPc = "returned"
    /\ dkExc = NoExc
    /\ MoreThanMaxGoodFiles
    /\ Len(dkInput.archive.members) = MAX_FILE_COUNT + 2
    /\ Len(dkReturn.files) = MAX_FILE_COUNT
    /\ member_idx = MAX_FILE_COUNT + 1

\* A regular, non-hidden member over the per-file limit: the member line 213
\* is about.
OversizeEntry(m) ==
    /\ m.isfile
    /\ ~StartsWithDot(BaseName(m.name))
    /\ m.size > MAX_FILE_SIZE

\* The loop is at an oversize entry.
AtOversizeEntry ==
    /\ dkPc = "extract_loop"
    /\ OversizeEntry(dkInput.archive.members[member_idx])

(* C19: in the docker backend's extraction an entry larger than            *)
(* MAX_FILE_SIZE is never handed to storage; the iteration that meets it   *)
(* changes neither file_count nor total_size nor the references, and below *)
(* the count limit it goes on to the next member, so that the members      *)
(* after it are treated as if it were not there.                           *)
C19_OversizeEntrySkipped ==
    /\ [](\A i \in 1..Len(saved) : saved[i].size <= MAX_FILE_SIZE)
    /\ [][AtOversizeEntry =>
            /\ UNCHANGED <<file_count, total_size, saved, file_urls>>
            /\ (file_count < MAX_FILE_COUNT
                /\ member_idx < Len(dkInput.archive.members)) =>
                  /\ dkPc' = "extract_loop"
                  /\ member_idx' = member_idx + 1]_vars

\* C19's case: the loop passed an oversize entry and then saved the files
\* after it, MAX_FILE_COUNT in all with the one before it.
C19_Witness ==
    /\ ExtractionEnded
    /\ file_count = MAX_FILE_COUNT
    /\ Len(file_urls) = MAX_FILE_COUNT
    /\ \E i \in 1..Len(dkInput.archive.members) :
          /\ OversizeEntry(dkInput.archive.members[i])
          /\ i < member_idx
          /\ saved[file_count] = dkInput.archive.members[member_idx]
          /\ total_size = SumOfSizes(SubSeq(dkInput.archive.members, 1, member_idx))
                            - dkInput.archive.members[i].size

\* The loop is at an entry it would read, whose size would take the
\* cumulative size over MAX_TOTAL_SIZE.
AtEntryOverTotal ==
    /\ dkPc = "extract_loop"
    /\ dkInput.archive.members[member_idx].isfile
    /\ ~StartsWithDot(BaseName(dkInput.archive.members[member_idx].name))
    /\ file_count < MAX_FILE_COUNT
    /\ dkInput.archive.members[member_idx].size <= MAX_FILE_SIZE
    /\ total_size + dkInput.archive.members[member_idx].size > MAX_TOTAL_SIZE

(* C20: at every step of the docker backend's extraction the files handed  *)
(* to storage are at most MAX_FILE_COUNT, each a non-empty regular         *)
(* non-dotfile entry of at most MAX_FILE_SIZE, their sizes add up to       *)
(* total_size and to at most MAX_TOTAL_SIZE; the iteration that meets an   *)
(* entry that would take the cumulative size over MAX_TOTAL_SIZE ends the  *)
(* loop without handing it over.                                           *)
C20_ExtractionLimits ==
    /\ [](/\ Len(saved) = file_count
          /\ file_count <= MAX_FILE_COUNT
          /\ Len(file_urls) <= file_count
          /\ \A i \in 1..Len(saved) :
                /\ saved[i].isfile
                /\ ~StartsWithDot(BaseName(saved[i].name))
                /\ saved[i].size \in 1..MAX_FILE_SIZE
          /\ SumOfSizes(saved) = total_size
          /\ total_size <= MAX_TOTAL_SIZE)
    /\ [][AtEntryOverTotal =>
            /\ dkPc' = "return"
            /\ UNCHANGED <<file_count, total_size, saved, file_urls>>]_vars

\* C20's case: files of MAX_FILE_SIZE filled MAX_TOTAL_SIZE exactly, the
\* loop ended at the next file of one byte and left the member after it
\* unread.
C20_Witness ==
    /\ ExtractionEnded
    /\ total_size = MAX_TOTAL_SIZE
    /\ file_count = MAX_TOTAL_SIZE \div MAX_FILE_SIZE
    /\ file_count < MAX_FILE_COUNT
    /\ member_idx < Len(dkInput.archive.members)
    /\ GoodMember(dkInput.archive.members[member_idx])
    /\ dkInput.archive.members[member_idx].size = 1
    /\ Len(file_urls) = file_count

(* C30: within one call of get_healthy_executor no provider is tried more  *)
(* than once: no two attempts of the call (a construction, with the health *)
(* check that follows it) are for the same provider name, also when the    *)
(* fallback list contains the primary or repeats a name.                   *)
C30_NoProviderTriedTwice ==
    \A p \in Procs :
        op[p] = "get_healthy" =>
            \A i, j \in 1..Len(attempts[p]) :
                i < j => attempts[p][i].provider # attempts[p][j].provider

WithinRequestLimits(a) ==
    /\ ~a.blank
    /\ a.code.length <= MAX_CODE_LENGTH
    /\ a.timeout \in MIN_TIMEOUT..MAX_TIMEOUT

(* C28: a request whose timeout is outside [1, 30], whose code is blank or *)
(* whose code is longer than 50000 characters is answered 422 at the entry *)
(* point without the validator or a backend being called; the validator    *)
(* and execute are only called with a non-blank code of at most            *)
(* MAX_CODE_LENGTH characters and a timeout within the range.              *)
C28_RequestValidatedBeforeUse ==
    /\ validateArg.called => WithinRequestLimits(validateArg)
    /\ executeArg.called => WithinRequestLimits(executeArg)
    /\ (aPc = "responded"
        /\ (\/ aRequest.timeout < 1 \/ aRequest.timeout > 30
            \/ aRequest.blank
            \/ aRequest.code.length > 50000)) =>
          /\ aResponse = 422
          /\ ~validateArg.called
          /\ ~executeArg.called

\* C28's case: a request at the upper ends of both ranges reached execute.
C28_Witness ==
    /\ aPc = "responded"
    /\ executeArg.called
    /\ validateArg.called
    /\ executeArg.code.length = MAX_CODE_LENGTH
    /\ executeArg.timeout = MAX_TIMEOUT
    /\ executeArg.code = aRequest.code

\* The calls of the control API in the order the claim gives them.
CallOrder == <<"boot-source", "drives/rootfs", "machine-config", "vsock", "actions">>

\* The success status the code expects of a call.
ExpectedStatus(path) == IF path = "vsock" THEN {204, 201} ELSE {204}

CallSucceeded(call) == call.status \in ExpectedStatus(call.path)

(* C29: the calls of the control API are a prefix of boot source, root     *)
(* drive, machine resources, vsock device, start action; every call but    *)
(* the last made was answered with its expected success status; once a     *)
(* call was not, nothing is sent to the guest, and execute returns a       *)
(* failure whose text carries the body of that response.                   *)
C29_ConfigurationInOrder ==
    /\ Len(apiCalls) <= Len(CallOrder)
    /\ \A i \in 1..Len(apiCalls) :
          /\ apiCalls[i].path = CallOrder[i]
          /\ i < Len(apiCalls) => CallSucceeded(apiCalls[i])
    /\ rpcLog # <<>> =>
          /\ Len(apiCalls) = Len(CallOrder)
          /\ CallSucceeded(apiCalls[Len(apiCalls)])
    /\ (fcPc = "returned" /\ apiCalls # <<>>
        /\ ~CallSucceeded(apiCalls[Len(apiCalls)])) =>
          /\ ~fcReturn.success
          /\ rpcLog = <<>>
          /\ apiCalls[Len(apiCalls)].status # 0 =>
                /\ fcExc.body = apiCalls[Len(apiCalls)].body
                /\ fcReturn.stderr = fcExc.msg
                /\ fcExc.msg.len > fcExc.body.len

\* C29's case: the vsock call was refused after three accepted calls, and
\* the session ended without a start action.
C29_Witness ==
    /\ fcPc = "returned"
    /\ Len(apiCalls) = 4
    /\ apiCalls[4].status = 400
    /\ apiCalls[4].body.len > 0
    /\ ~fcReturn.success

\* The exchange of _execute_code_in_vm has ended, one way or another.
RpcEnded == rpcEvent # "none"

\* The events in which a read of the response ran into the socket timeout.
ReadTimeoutEvents == {"length_timeout", "body_timeout"}

\* The events in which any operation on the socket ran into its timeout.
SocketTimeoutEvents ==
    {"connect_timeout", "send_timeout", "length_timeout", "body_timeout"}

\* What every failed exchange reports, with the given events as the ones
\* tagged 'Execution timeout'.
RpcFailureReported(timeouts) ==
    RpcEnded =>
       /\ fcExc = NoExc
       /\ fcResult # NoVmResult
       /\ rpcEvent # "ok" =>
             /\ ~fcResult.success
             /\ fcResult.exit_code = -1
             /\ fcResult.error \in {"Execution timeout", "Code execution failed"}
       /\ fcResult.error = "Execution timeout" <=> rpcEvent \in timeouts

(* C26 as stated: _execute_code_in_vm never raises; a socket error, a read *)
(* timeout, a connection closed before or inside a frame and an            *)
(* undecodable response all give success=false, exit_code=-1 and an error  *)
(* tag, and the tag is 'Execution timeout' exactly for read timeouts.      *)
C26_ReadTimeoutsOnly == RpcFailureReported(ReadTimeoutEvents)

(* C26, amended: the same, with the tag 'Execution timeout' exactly when   *)
(* an operation on the socket (connect, send or a read) timed out.         *)
C26_RpcNeverRaises == RpcFailureReported(SocketTimeoutEvents)

\* C26's case: the connection was closed inside the body of the response
\* and execute went on with a failure that is not a timeout.
C26_Witness ==
    /\ fcPc = "extract"
    /\ rpcEvent = "closed_in_body"
    /\ ~fcResult.success
    /\ fcResult.error = "Code execution failed"
    /\ rpcLog = <<"probe", "connect", "execute">>

\* The steps of a session in the order of the claim's states: the step
\* entered from Created, ProcessStarted, SocketReady, Configured, Booted,
\* Executing and Extracting.
StepOrder ==
    <<"start_firecracker", "wait_for_socket", "configure_vm", "boot_vm",
      "execute_code_in_vm", "extract_files", "teardown">>

StepIndex(step) == CHOOSE i \in 1..Len(StepOrder) : StepOrder[i] = step

\* The exchange with the guest agent failed or timed out.
ExecutingFailed == rpcEvent \notin {"none", "ok"}

(* C23: the steps of a session are taken in the order of the states, none  *)
(* twice; a session in which a step raised or the execution failed or      *)
(* timed out goes on with the teardown only, never with the extraction,    *)
(* and returns success=false.                                              *)
C23_LinearTraversal ==
    /\ \A i, j \in 1..Len(fcSteps) :
          i < j => StepIndex(fcSteps[i]) < StepIndex(fcSteps[j])
    /\ (fcExc # NoExc \/ ExecutingFailed) =>
          /\ "extract_files" \notin Range(fcSteps)
          /\ "list_files" \notin Range(rpcLog)
          /\ fcPc = "returned" =>
                /\ ~fcReturn.success
                /\ fcSteps[Len(fcSteps)] = "teardown"

\* A session is under way: execute was called and has not returned.
SessionRunning == fcPc \notin {"idle", "returned"}

\* execute has returned after its finally block.
SessionTornDown ==
    /\ fcPc = "returned"
    /\ fcReturn.returned
    /\ fcSteps # <<>>
    /\ fcSteps[Len(fcSteps)] = "teardown"

(* C24: every session that was started reaches its teardown and execute   *)
(* returns: the wait for the API socket, the wait for the guest agent, the *)
(* reads of the exchange and the wait for the killed process all end, also *)
(* when the socket never appears, the agent never answers or the exchange  *)
(* times out.                                                              *)
C24_SessionEventuallyTornDown == SessionRunning ~> SessionTornDown

\* C24's case: the exchange timed out, the killed process did not exit
\* within the wait of the finally block, and execute returned.
C24_Witness ==
    /\ SessionTornDown
    /\ rpcEvent = "body_timeout"
    /\ fcReturn.error = "Execution timeout"
    /\ \E i \in 1..Len(teardown) :
          teardown[i].action = "wait" /\ teardown[i].raised

\* The container backend returned normally, the extraction behind it.
DockerReturnedNormally == dkReturn.returned /\ dkExc = NoExc

\* The microVM backend returned normally, the extraction behind it.
FcReturnedNormally == fcReturn.returned /\ fcExc = NoExc

\* The save outcomes that are failures of one file.
FailedSaves == {"raise", "url_raise", "none"}

\* An iteration of the container backend's loop that hands a file to the
\* storage manager, which fails on it.
SaveFails ==
    /\ dkPc = "extract_loop"
    /\ MemberVerdict(dkInput.archive.members[member_idx], file_count,
                     total_size) = "save"
    /\ dkInput.archive.members[member_idx].save \in FailedSaves

\* What is true of every state: a started extraction leaves no exception
\* in execute, and the result returned after it has the success, stdout,
\* stderr and exit_code of the execution and only names of archive members
\* as files.
ExtractionContained ==
    /\ dkPc \in {"extract_loop", "return"} => dkExc = NoExc
    /\ DockerReturnedNormally =>
          /\ dkReturn.success
          /\ dkReturn.stdout = dkLogs.stdout
          /\ dkReturn.stderr = dkLogs.stderr
          /\ dkReturn.exit_code = waitResult.StatusCode
          /\ Range(dkReturn.files) \subseteq
                {BaseName(dkInput.archive.members[i].name) :
                    i \in 1..Len(dkInput.archive.members)}
    /\ FcReturnedNormally =>
          /\ dkReturn = NoReturn
          /\ fcReturn.success = fcResult.success
          /\ fcReturn.stdout = fcResult.stdout
          /\ fcReturn.stderr = fcResult.stderr
          /\ fcReturn.exit_code = fcResult.exit_code
          /\ fcReturn.files = <<>>

(* C21: whatever fails during the extraction of files (no output           *)
(* directory, an archive member or a vsock read that fails, a save or a    *)
(* url request that fails), execute returns normally with the success,     *)
(* stdout, stderr and exit_code of the execution and with fewer or no file *)
(* references; in the container backend the loop goes on to the next       *)
(* member after a file whose save failed.                                  *)
C21_ExtractionFailuresContained ==
    /\ []ExtractionContained
    /\ [][(SaveFails /\ member_idx < Len(dkInput.archive.members)) =>
             /\ dkPc' = "extract_loop"
             /\ member_idx' = member_idx + 1
             /\ file_urls' = file_urls
             /\ dkExc' = NoExc]_vars
    /\ [][fcPc = "extract" =>
             /\ fcPc' = "finally"
             /\ fcExc' = NoExc]_vars

\* C21's case: the container backend returned the urls of the second and
\* the fifth file of an archive whose first, third and fourth file could
\* not be saved and whose sixth could not be read.
C21_Witness ==
    /\ dkPc = "returned"
    /\ DockerReturnedNormally
    /\ Len(dkInput.archive.members) = 7
    /\ dkInput.archive.members[1].save = "raise"
    /\ dkInput.archive.members[6].save = "read_error"
    /\ dkReturn.files = << <<"b", ".txt">>, <<"e", ".txt">> >>
    /\ Len(saved) = 5

\* The container backend runs with no storage manager or a disabled one.
DockerStorageDisabled == dkInput.storage = "disabled"

\* The microVM backend runs a session with STORAGE_ENABLED off.
FcStorageDisabled == fcPc # "idle" /\ ~fcInput.storage_enabled

\* The requests of the extraction on the vsock.
ExtractionRequests == {"list_files", "get_file"}

\* What is true of every state under disabled storage: no archive is read,
\* no extraction step is entered, no connection but the one of the execute
\* request is opened, and a result has no files and no error of its own.
DisabledStorageSkips ==
    /\ DockerStorageDisabled =>
          /\ archive_reads = 0
          /\ dkPc # "extract_loop"
          /\ dkReturn.returned =>
                /\ dkReturn.files = <<>>
                /\ dkExc = NoExc => dkReturn.success /\ dkReturn.error = "None"
    /\ FcStorageDisabled =>
          /\ "extract_files" \notin Range(fcSteps)
          /\ Range(rpcLog) \cap ExtractionRequests = {}
          /\ Cardinality({i \in 1..Len(rpcLog) : rpcLog[i] = "connect"}) <= 1
          /\ fcReturn.returned =>
                /\ fcReturn.files = <<>>
                /\ fcExc = NoExc => fcReturn.error = fcResult.error

(* C22: with storage disabled every result has an empty file list and the *)
(* disabled storage is no error; the container backend does not read the  *)
(* archive of the output directory; the microVM backend goes from the      *)
(* execution to the teardown without a connection for, or a request of,    *)
(* list_files or get_file.                                                 *)
C22_DisabledStorageSkipsExtraction ==
    /\ []DisabledStorageSkips
    /\ [][(fcPc = "extract" /\ ~fcInput.storage_enabled) =>
             /\ fcPc' = "finally"
             /\ rpcLog' = rpcLog
             /\ fcSteps' = fcSteps
             /\ fcReturn'.success = fcResult.success]_vars
    /\ [][(dkPc = "extract" /\ DockerStorageDisabled) => dkPc' = "return"]_vars

\* C22's case: with storage disabled the guest ran the code, and execute
\* returned its result after the one exchange.
C22_Witness ==
    /\ fcPc = "returned"
    /\ ~fcInput.storage_enabled
    /\ rpcEvent = "ok"
    /\ fcReturn.success
    /\ fcReturn.files = <<>>
    /\ rpcLog = <<"probe", "connect", "execute">>
    /\ fcSteps[Len(fcSteps)] = "teardown"

\* The teardown log holds an attempt of the action.
Attempted(log, action) == \E i \in 1..Len(log) : log[i].action = action

\* What is true of every state: an execute that returned has a result, and
\* a microVM session that returned has attempted the unlink of its socket,
\* after the kill of the process if it had one.
TeardownComplete ==
    /\ dkPc = "returned" => dkReturn.returned
    /\ fcPc = "returned" =>
          /\ fcReturn.returned
          /\ Attempted(teardown, "unlink")
          /\ firecracker_process # NoProcess =>
                teardown[1].action = "kill"

(* C25: in both backends the finally block leaves the result as it was     *)
(* computed before it and lets execute return, whether the kill, the wait, *)
(* the removal of the container or the unlink raises; the unlink of the    *)
(* socket is attempted also when the kill or the wait raised.              *)
C25_TeardownFailureSwallowed ==
    /\ []TeardownComplete
    /\ [][fcPc = "finally" =>
             /\ fcReturn' = fcReturn
             /\ fcExc' = fcExc
             /\ fcPc' = "returned"
             /\ Attempted(teardown', "unlink")]_vars
    /\ [][dkPc = "finally" =>
             /\ dkReturn' = dkReturn
             /\ dkExc' = dkExc
             /\ dkPc' = "returned"]_vars

\* C25's case: the kill raised, the unlink was attempted and raised too,
\* and execute returned the successful result of the exchange.
C25_Witness ==
    /\ fcPc = "returned"
    /\ teardown = <<[action |-> "kill", raised |-> TRUE],
                    [action |-> "unlink", raised |-> TRUE]>>
    /\ rpcEvent = "ok"
    /\ fcReturn.success
    /\ processes[firecracker_process] = "running"

\* The texts in which the claim sees a timeout: 'timeout' or 'timed out' in
\* any mix of cases, at any place.
TimeoutWords ==
    { <<a, b>> : a \in {"time", "Time"}, b \in {"out", "OUT"} }
    \cup { <<a, "d", " ", b>> : a \in {"time", "Time"}, b \in {"out", "OUT"} }

SaysTimeout(text) ==
    \E i, j \in 1..Len(text) : i <= j /\ SubSeq(text, i, j) \in TimeoutWords

(* C31: the result of the container backend for an exception has          *)
(* success=false, an empty stdout and no files; for a ContainerError the   *)
(* exit_code is its exit status; for any other exception the exit_code is  *)
(* -1 and the error tag is 'Execution timeout' when the text holds         *)
(* 'timeout' or 'timed out' in any case, and 'Execution failed' when not.  *)
C31_ExceptionClassified ==
    (dkReturn.returned /\ dkExc # NoExc) =>
        /\ ~dkReturn.success
        /\ dkReturn.stdout = EmptyText
        /\ dkReturn.files = <<>>
        /\ IF dkExc.cls = "ContainerError"
           THEN dkReturn.exit_code = dkExc.exit_status
           ELSE /\ dkReturn.exit_code = -1
                /\ dkReturn.error \in {"Execution timeout", "Execution failed"}
                /\ dkReturn.error = "Execution timeout" <=> SaysTimeout(dkExc.text)

\* C31's case: the wait raised with a text in capitals that holds 'TIMED
\* OUT' only case-insensitively, and the result is tagged a timeout.
C31_Witness ==
    /\ dkPc = "returned"
    /\ dkExc.cls = "ReadTimeout"
    /\ dkExc.text = <<"Time", "d", " ", "OUT">>
    /\ dkReturn.error = "Execution timeout"
    /\ dkReturn.exit_code = -1

\* A step in which caller p runs create_executor from start to end.
CreateStep(p) == pc[p] = "idle" /\ pc'[p] = "done" /\ op'[p] = "create"

\* What create_executor answered for name n in that step.
CreateAnswer(p, n) ==
    IF HasKey(instances, n)
    THEN /\ result'[p].kind = "instance"
         /\ result'[p].inst = Lookup(instances, n)
         /\ UNCHANGED <<instances, made>>
    ELSE \/ /\ n \in DOMAIN registry
            /\ result'[p].kind = "instance"
            /\ result'[p].inst \notin Range(Ids(instances))
            /\ instances' = Append(instances, [provider |-> n, id |-> result'[p].inst])
            /\ made' = [made EXCEPT ![n] = @ + 1]
         \/ /\ result'[p].kind = "ExecutionError"
            /\ UNCHANGED <<instances, made>>
            /\ ~HasKey(instances', n)
            /\ n \in DOMAIN registry =>
                   (CreateExecutor(n, TRUE).built = 1
                       /\ ~CreateExecutor(n, TRUE).raised)'

(* C32: create(name) returns the cached instance when the cache has one    *)
(* for the name; otherwise it constructs one and caches it, or, when the   *)
(* name is not registered or the construction raises, fails with an        *)
(* execution error naming the provider and leaves the cache as it was,     *)
(* without an entry for the name, so that the next create of a registered  *)
(* name constructs again.                                                  *)
C32_CreateCachesOnlySuccess ==
    [][\A p \in Procs :
          CreateStep(p) =>
              /\ result'[p].provider \in Providers
              /\ result'[p].provider \notin DOMAIN registry
                     => result'[p].kind = "ExecutionError"
              /\ \A n \in Providers :
                     result'[p].provider = n => CreateAnswer(p, n)]_vars

\* C32's case: the construction of a registered provider raised while
\* another provider was cached, and the cache has no entry for the name.
C32_Witness ==
    \E p \in Procs :
        /\ pc[p] = "done" /\ op[p] = "create"
        /\ result[p].kind = "ExecutionError"
        /\ result[p].provider \in DOMAIN registry
        /\ ~HasKey(instances, result[p].provider)
        /\ instances # <<>>

\* The host decoded the guest's answer to the execute request.
GuestAnswered == rpcEvent = "ok" /\ guestRun.outcome # "none"

\* The four fields of a result are those of the guest's answer.
SameFields(r, response) ==
    /\ r.success = response.success
    /\ r.stdout = response.stdout
    /\ r.stderr = response.stderr
    /\ r.exit_code = response.exit_code

(* C35: when the host decoded the guest's answer, success is true exactly  *)
(* when the guest's subprocess exited with status 0; a subprocess that     *)
(* exceeded the timeout is answered with success=false, exit_code -1 and a *)
(* stderr text; and the result of _execute_code_in_vm and the result       *)
(* execute returns carry the guest's success, stdout, stderr and exit_code *)
(* as the guest sent them.                                                 *)
C35_GuestResultPassedThrough ==
    GuestAnswered =>
        /\ guestRun.response.success <=> guestRun.outcome = "exit_0"
        /\ guestRun.outcome = "timeout" =>
              /\ ~guestRun.response.success
              /\ guestRun.response.exit_code = -1
              /\ guestRun.response.stderr # EmptyText
        /\ fcPc \in {"extract", "finally", "returned"} =>
              SameFields(fcResult, guestRun.response)
        /\ fcReturn.returned => SameFields(fcReturn, guestRun.response)

\* C35's case: the guest's subprocess exited with status 1 and execute
\* returned the guest's failure.
C35_Witness ==
    /\ fcPc = "returned"
    /\ GuestAnswered
    /\ guestRun.outcome = "exit_1"
    /\ ~fcReturn.success
    /\ fcReturn.exit_code = 1
    /\ fcReturn.stderr = Text(120, FALSE)

\* The submitted code ran longer than the caller's timeout: the host's read
\* of the response length timed out while the code was running, or the
\* guest's subprocess.run raised TimeoutExpired and the guest answered.
HostTimerFired == rpcEvent = "length_timeout"

GuestTimerFired == rpcEvent = "ok" /\ guestRun.outcome = "timeout"

(* C39: when the submitted code ran longer than the caller's timeout, the  *)
(* result execute returns has success=false, exit_code=-1 and the error    *)
(* tag 'Execution timeout', whether the host's socket read timeout or the  *)
(* guest's subprocess timeout fired first.                                 *)
C39_TimeoutTaggedByEitherTimer ==
    (fcReturn.returned /\ (HostTimerFired \/ GuestTimerFired)) =>
        /\ ~fcReturn.success
        /\ fcReturn.exit_code = -1
        /\ fcReturn.error = "Execution timeout"

\* A request that arrived whole and is a JSON object.
WellFormed(req) == req.read = "object"

UnknownAction(req) ==
    WellFormed(req) /\ req.action \notin {<<"execute">>, <<"list_files">>, <<"get_file">>}

\* One length-prefixed JSON error object that names the action.
IsJsonError(sent, action) ==
    /\ Len(sent) = 2
    /\ sent[1].role = "length" /\ sent[2].role = "json"
    /\ sent[1].n = sent[2].n /\ sent[1].n > 0
    /\ sent[2].obj.kind = "error" /\ sent[2].obj.action = action

\* The connection is open after the requests read so far.
ConnectionOpen == agPc = "serving"

(* C33: on a connection whose peer is there, a well-formed request with an *)
(* unknown action is answered with one length-prefixed JSON error object   *)
(* and the loop goes on; every well-formed request read after it is        *)
(* answered; and the loop has ended only after a request that was closed   *)
(* off by the peer or could not be read or parsed.                         *)
C33_UnknownActionKeepsConnection ==
    /\ \A i \in 1..Len(agLog) :
          LET e == agLog[i]
          IN  /\ (UnknownAction(e.request) /\ ~e.peer_gone) =>
                    (IsJsonError(e.sent, e.request.action) /\ e.goes_on)
              /\ (WellFormed(e.request) /\ ~e.peer_gone) =>
                    (e.sent # <<>> /\ e.goes_on)
              /\ i < Len(agLog) => e.goes_on
              /\ ~e.goes_on => (e.peer_gone \/ ~WellFormed(e.request))
    /\ ConnectionOpen => (agLog = <<>> \/ agLog[Len(agLog)].goes_on)
    /\ agPc = "closing" => (agLog # <<>> /\ ~agLog[Len(agLog)].goes_on)
    /\ ConnectionOpen => ENABLED AgentHandleRequest

\* C33's case: an unknown action was answered, an execute request after it
\* on the same connection was answered too, and the connection is open.
C33_Witness ==
    /\ ConnectionOpen
    /\ Len(agLog) = 2
    /\ agLog[1].request.action = <<"ping">>
    /\ IsJsonError(agLog[1].sent, <<"ping">>)
    /\ agLog[2].request.action = <<"execute">>
    /\ agLog[2].sent # <<>>

GetFileRequest(req) == WellFormed(req) /\ req.action = <<"get_file">>

\* Exactly one raw frame: a length, and as many raw bytes when it is not 0.
IsRawFrame(sent) ==
    /\ sent # <<>>
    /\ sent[1].role = "length"
    /\ IF sent[1].n = 0 THEN Len(sent) = 1
       ELSE Len(sent) = 2 /\ sent[2].role = "raw" /\ sent[2].n = sent[1].n

(* C34: a get_file request on a connection whose peer is there is answered *)
(* with exactly one raw frame; the frame is a zero length with no content  *)
(* for a path that is missing, not a regular file or unreadable, and the   *)
(* file's length and bytes for a file that is read; in every case the      *)
(* loop goes on to the next request.                                       *)
C34_GetFileOneRawFrame ==
    \A i \in 1..Len(agLog) :
        LET e == agLog[i]
        IN  (GetFileRequest(e.request) /\ ~e.peer_gone) =>
                /\ IsRawFrame(e.sent)
                /\ e.request.file.kind # "regular" => e.sent[1].n = 0
                /\ e.request.file.kind = "regular" => e.sent[1].n = e.request.file.size
                /\ e.goes_on
                /\ (i = Len(agLog) => agPc = "serving")

\* C34's case: get_file of an unreadable file was answered with a zero
\* length, and the get_file after it with the file's content.
C34_Witness ==
    /\ agPc = "serving"
    /\ Len(agLog) = 2
    /\ agLog[1].request.file.kind = "unreadable"
    /\ agLog[1].sent = <<LengthPrefix(0)>>
    /\ agLog[2].request.file = GuestFile("regular", 100)
    /\ Len(agLog[2].sent) = 2

RECURSIVE SumOfReturned(_)
SumOfReturned(urls) ==
    IF urls = <<>> THEN 0 ELSE Head(urls).size + SumOfReturned(Tail(urls))

Uploadable(file) ==
    file.kind = "regular" /\ file.size > 0 /\ file.size <= MAX_FILE_SIZE

FullyReceived(i) ==
    \E k \in 1..Len(xReads) : xReads[k].file = i /\ xReads[k].is = "content"

(* C37: when _extract_files has returned, every listed file that is not    *)
(* empty, is within the per-file ceiling and was fully received has one    *)
(* reference in file_urls, and the references are in listing order.        *)
C37_EveryReceivedFileHasUrl ==
    xPc = "returned" =>
        /\ \A i \in 1..Len(xListing) :
              (Uploadable(xListing[i]) /\ FullyReceived(i)) =>
                  Cardinality({k \in 1..Len(xUrls) : xUrls[k].file = i}) = 1
        /\ \A k, m \in 1..Len(xUrls) : k < m => xUrls[k].file < xUrls[m].file

\* The bytes of a read are the whole length of the guest's answer to the
\* request the read belongs to, or bytes of that answer's content only.
AlignedLength(r) ==
    /\ Len(r.got) = 1
    /\ r.got[1].role = "length" /\ r.got[1].whole
    /\ r.got[1].req = r.file

AlignedContent(r) ==
    \A k \in 1..Len(r.got) : r.got[k].role = "raw" /\ r.got[k].req = r.file

(* C38: on the extraction connection every 4 bytes the host reads as a     *)
(* length are the length of the guest's answer to the host's most recent   *)
(* get_file request, and the bytes it reads as a file's content are bytes  *)
(* of that file's content, also after a file was passed over for its size. *)
C38_FrameAligned ==
    \A i \in 1..Len(xReads) :
        IF xReads[i].is = "length" THEN AlignedLength(xReads[i])
        ELSE AlignedContent(xReads[i])

\* The hypervisor process and the socket files of the session of request t
\* are in the next state as they are in this one.
SessionUntouched(t) ==
    /\ sessions'[t] = sessions[t]
    /\ sessions[t].firecracker_process # NoProcess =>
          processes'[sessions[t].firecracker_process]
              = processes[sessions[t].firecracker_process]
    /\ socketDir' \cap SessionFiles(sessions[t].vm_id)
          = socketDir \cap SessionFiles(sessions[t].vm_id)

\* Request s runs its finally block in this step.
TearsDown(s) == sessions[s].pc = "finally" /\ sessions'[s].pc = "idle"

\* The sessions in flight have vm ids of their own, not used before by
\* a session that was torn down, and each holds its own process or none.
OwnIdentifiers ==
    /\ \A s, t \in Procs :
          (InFlight(s) /\ InFlight(t) /\ s # t) =>
              /\ sessions[s].vm_id # sessions[t].vm_id
              /\ SessionFiles(sessions[s].vm_id) \cap SessionFiles(sessions[t].vm_id) = {}
    /\ \A s \in Procs : \A i \in 1..Len(teardowns) :
          InFlight(s) => teardowns[i].by # sessions[s].vm_id
    /\ \A s \in Procs :
          sessions[s].firecracker_process \in {NoProcess, sessions[s].vm_id}

\* A finally block killed no process but its session's and removed no file
\* but its session's socket.
OwnTeardown ==
    \A i \in 1..Len(teardowns) :
        /\ teardowns[i].killed \in {NoProcess, teardowns[i].by}
        /\ teardowns[i].removed \subseteq SessionFiles(teardowns[i].by)

(* C40: requests in execute of the microVM backend at the same time have   *)
(* vm ids, control sockets and vsock paths of their own, and the finally   *)
(* block of one request kills only its own hypervisor process and removes  *)
(* only its own socket file: every other session in flight keeps its       *)
(* locals, its process and its files through that step.                    *)
C40_SessionsIndependent ==
    /\ [](OwnIdentifiers /\ OwnTeardown)
    /\ [][\A s, t \in Procs :
             (TearsDown(s) /\ t # s /\ InFlight(t)) => SessionUntouched(t)]_vars

\* C40's case: two sessions were in flight together, one was torn down and
\* killed its process and removed its socket, and the other one still runs
\* with its process alive and its files in place.
C40_Witness ==
    \E t \in Procs :
        /\ sessions[t].pc = "run"
        /\ processes[sessions[t].firecracker_process] = "running"
        /\ SessionFiles(sessions[t].vm_id) \subseteq socketDir
        /\ Len(teardowns) = 1
        /\ teardowns[1].by < sessions[t].vm_id
        /\ teardowns[1].killed = teardowns[1].by
        /\ teardowns[1].removed = {SockFile(teardowns[1].by)}
        /\ uuids = 2

====
